---- MODULE Spec2Model ----
(***************************************************************************)
(* A model of needle, a terminal dashboard that triages pull requests.     *)
(*                                                                         *)
(*   - the attention model (model.rs), the SQLite cache (db.rs),           *)
(*   - the novelty detector, the scoring engine and the refresh cycle      *)
(*     (refresh.rs),                                                       *)
(*   - the interactive main loop and its refresh workers (tui.rs).         *)
(*                                                                         *)
(* Three specifications share the variables:                               *)
(*   Spec        the running program: main loop, worker threads, cache;    *)
(*   SpecRefresh refresh cycles alone, over a wider range of fetched PRs;  *)
(*   SpecFn      the pure functions, applied to inputs drawn in Init.      *)
(*                                                                         *)
(* Option<T> is a sequence of length at most one: None is <<>>, Some(x) is *)
(* <<x>>.  Rust enums are strings carrying the variant's name.             *)
(***************************************************************************)
EXTENDS Integers, Sequences, FiniteSets, TLC

VARIABLES
    state,        \* tui.rs AppState
    refresh_rx,   \* run_tui: Option<Receiver>, the id of the worker whose channel is held
    seen_repos,   \* run_tui: HashSet of owner/repo
    shown_repos,  \* history: every owner/repo the list has held in this session
    visible,      \* run_tui: visible_for_events of the current iteration
    cursor,       \* run_tui: the selected index handed to build_list_lines for the frame on screen
    pc,           \* run_tui: position of the main loop
    workers,      \* spawned refresh threads and their channels
    alerts,       \* bell and notifications dispatched by the latest step
    last_result,  \* history: outcome of the latest poll that ended a refresh
    last_key,     \* history: the key event the latest step read, if it read one
    nkeys,        \* key events read so far
    cfg,          \* run_tui's parameters
    startup,      \* history: how main() came to run_tui, or why it did not
    cache,        \* the prs table: pr_key -> DbPrRow
    clock,        \* wall clock, seconds
    cycle,        \* history: the latest refresh cycle (its fault, time, input and result)
    fn_in,        \* SpecFn: the inputs drawn
    fn_out        \* SpecFn: the results computed from them

vars == <<state, refresh_rx, seen_repos, shown_repos, visible, cursor, pc, workers, alerts,
          last_result, last_key, nkeys, cfg, startup, cache, clock, cycle, fn_in, fn_out>>

tuiVars == <<state, refresh_rx, seen_repos, shown_repos, visible, cursor, pc, workers, alerts,
             last_result, last_key, nkeys, cfg, startup>>
fnVars == <<fn_in, fn_out>>

----------------------------------------------------------------------------
(* Option *)

None == <<>>
Some(x) == <<x>>
IsSome(o) == o /= <<>>
Unwrap(o) == o[1]

----------------------------------------------------------------------------
(* Bounds *)

\* The clock starts here; every other time is relative to it.
T0 == 200000
\* The clock advances at most this far past T0.
MaxTime == 180
\* At most this many PRs in one fetch.
MaxFetch == 2
\* At most this many key presses in a session.
MaxKeys == 2
\* At most this many characters in the filter text.
MaxFilterLen == 1
\* At most this many loop iterations are animated while one refresh is in flight.
MaxShimmer == 2

----------------------------------------------------------------------------
(* model.rs *)

CiStates == {"Success", "Failure", "Running", "None"}
ReviewStates == {"Requested", "Approved", "None"}
CiCheckStates == {"Success", "Failure", "Running", "Neutral", "None"}

CiState_as_str(ci) ==
    CASE ci = "Success" -> "success"
      [] ci = "Failure" -> "failure"
      [] ci = "Running" -> "running"
      [] ci = "None" -> "none"

ReviewState_as_str(r) ==
    CASE r = "Requested" -> "requested"
      [] r = "Approved" -> "approved"
      [] r = "None" -> "none"

----------------------------------------------------------------------------
(* refresh.rs: constants *)

SCORE_REVIEW_REQUESTED == 50
SCORE_CI_FAILED_NEW == 40
SCORE_CI_RUNNING_LONG == 20
SCORE_APPROVED_UNMERGED_OLD == 15
SCORE_WAITING_ON_OTHERS_GREEN == -20
SCORE_CI_FAILED_UNCHANGED == -30

CATEGORY_NEEDS_YOU_MIN == 40
CATEGORY_NO_ACTION_MIN == 0

CI_RUNNING_LONG_SECS == 600
APPROVED_UNMERGED_OLD_SECS == 86400

parse_ci_state(s) ==
    CASE s = Some("success") -> "Success"
      [] s = Some("failure") -> "Failure"
      [] s = Some("running") -> "Running"
      [] OTHER -> "None"

parse_review_state(s) ==
    CASE s = Some("requested") -> "Requested"
      [] s = Some("approved") -> "Approved"
      [] OTHER -> "None"

\* i64::saturating_sub.  Every time of the model lies far inside the i64 range,
\* where the saturating difference is the difference.
saturating_sub(a, b) == a - b

----------------------------------------------------------------------------
(* refresh.rs: scoring *)

RECURSIVE OldestRunningStart(_, _)
\* .filter(state is Running).filter_map(started_at_unix).min() over checks[i..]
OldestRunningStart(checks, i) ==
    IF i > Len(checks) THEN None
    ELSE LET rest == OldestRunningStart(checks, i + 1)
             c == checks[i]
         IN IF c.state = "Running" /\ IsSome(c.started_at_unix)
            THEN IF IsSome(rest) /\ Unwrap(rest) < Unwrap(c.started_at_unix)
                 THEN rest
                 ELSE c.started_at_unix
            ELSE rest

\* running_for_secs that never looks at the checks.
running_for_secs_FromUpdatedAt(pr, now) ==
    saturating_sub(now, pr.updated_at_unix)

running_for_secs(pr, now) ==
    LET oldest_start == OldestRunningStart(pr.ci_checks, 1)
    IN IF IsSome(oldest_start)
       THEN saturating_sub(now, Unwrap(oldest_start))
       ELSE saturating_sub(now, pr.updated_at_unix)

\* score_pr with an early exit after the first term that applies.
score_pr_EarlyExit(pr, old, now, is_new_ci_failure) ==
    IF pr.review_state = "Requested" THEN SCORE_REVIEW_REQUESTED
    ELSE IF pr.ci_state = "Failure"
    THEN (IF is_new_ci_failure THEN SCORE_CI_FAILED_NEW ELSE SCORE_CI_FAILED_UNCHANGED)
    ELSE IF pr.ci_state = "Running" /\ running_for_secs(pr, now) > CI_RUNNING_LONG_SECS
    THEN SCORE_CI_RUNNING_LONG
    ELSE IF pr.review_state = "Approved"
            /\ saturating_sub(now, pr.updated_at_unix) > APPROVED_UNMERGED_OLD_SECS
    THEN SCORE_APPROVED_UNMERGED_OLD
    ELSE IF pr.review_state = "None" /\ pr.ci_state = "Success"
    THEN SCORE_WAITING_ON_OTHERS_GREEN
    ELSE 0

\* score_pr whose -30 applies to every failing PR, new or not.
score_pr_BothFailureTerms(pr, old, now, is_new_ci_failure) ==
    (IF pr.review_state = "Requested" THEN SCORE_REVIEW_REQUESTED ELSE 0)
    + (IF pr.ci_state = "Failure" /\ is_new_ci_failure THEN SCORE_CI_FAILED_NEW ELSE 0)
    + (IF pr.ci_state = "Failure" THEN SCORE_CI_FAILED_UNCHANGED ELSE 0)
    + (IF pr.ci_state = "Running" /\ running_for_secs(pr, now) > CI_RUNNING_LONG_SECS
       THEN SCORE_CI_RUNNING_LONG ELSE 0)
    + (IF pr.review_state = "Approved"
          /\ saturating_sub(now, pr.updated_at_unix) > APPROVED_UNMERGED_OLD_SECS
       THEN SCORE_APPROVED_UNMERGED_OLD ELSE 0)
    + (IF pr.review_state = "None" /\ pr.ci_state = "Success"
       THEN SCORE_WAITING_ON_OTHERS_GREEN ELSE 0)

score_pr(pr, old, now, is_new_ci_failure) ==
    LET s1 == IF pr.review_state = "Requested" THEN SCORE_REVIEW_REQUESTED ELSE 0
        s2 == IF pr.ci_state = "Failure"
              THEN s1 + (IF is_new_ci_failure THEN SCORE_CI_FAILED_NEW
                                              ELSE SCORE_CI_FAILED_UNCHANGED)
              ELSE s1
        s3 == IF pr.ci_state = "Running" /\ running_for_secs(pr, now) > CI_RUNNING_LONG_SECS
              THEN s2 + SCORE_CI_RUNNING_LONG
              ELSE s2
        s4 == IF pr.review_state = "Approved"
                 /\ saturating_sub(now, pr.updated_at_unix) > APPROVED_UNMERGED_OLD_SECS
              THEN s3 + SCORE_APPROVED_UNMERGED_OLD
              ELSE s3
        s5 == IF pr.review_state = "None" /\ pr.ci_state = "Success"
              THEN s4 + SCORE_WAITING_ON_OTHERS_GREEN
              ELSE s4
    IN s5

\* category_for with the first bound exclusive.
category_for_Strict(score) ==
    IF score > CATEGORY_NEEDS_YOU_MIN THEN "NeedsYou"
    ELSE IF score >= CATEGORY_NO_ACTION_MIN THEN "Waiting"
    ELSE "Stale"

category_for(score) ==
    IF score >= CATEGORY_NEEDS_YOU_MIN THEN "NeedsYou"
    ELSE IF score >= CATEGORY_NO_ACTION_MIN THEN "Waiting"
    ELSE "Stale"

----------------------------------------------------------------------------
(* model.rs: merge blockers, and the category of the viewer's own green PR *)

\* is_clear whose missing approval requirement counts as unmet.
MergeBlockers_is_clear_NeedsRequirement(mb) ==
    /\ ~mb.has_conflicts
    /\ ~mb.is_behind_base
    /\ mb.failing_required_checks = <<>>
    /\ IF IsSome(mb.required_approvals)
       THEN mb.current_approvals >= Unwrap(mb.required_approvals)
       ELSE FALSE

\* is_clear that does not look at the base branch.
MergeBlockers_is_clear_IgnoresBehind(mb) ==
    /\ ~mb.has_conflicts
    /\ mb.failing_required_checks = <<>>
    /\ IF IsSome(mb.required_approvals)
       THEN mb.current_approvals >= Unwrap(mb.required_approvals)
       ELSE TRUE

MergeBlockers_is_clear(mb) ==
    /\ ~mb.has_conflicts
    /\ ~mb.is_behind_base
    /\ mb.failing_required_checks = <<>>
    /\ IF IsSome(mb.required_approvals)
       THEN mb.current_approvals >= Unwrap(mb.required_approvals)
       ELSE TRUE

\* The category of a scored PR.  The refresh.rs at hand stops at
\* category_for; its Category has no ReadyToMerge, which tui.rs matches on.
\* The assignment of ReadyToMerge is taken from the specification: the
\* viewer's own PR, CI green, merge blockers clear if known.
category_with_ready_to_merge(pr, score) ==
    IF /\ pr.is_viewer_author
       /\ pr.ci_state = "Success"
       /\ IsSome(pr.merge_blockers) => MergeBlockers_is_clear(Unwrap(pr.merge_blockers))
    THEN "ReadyToMerge"
    ELSE category_for(score)

----------------------------------------------------------------------------
(* refresh.rs: novelty *)

\* is_new_review_request without the look at the prior row.
is_new_review_request_IgnoresOld(pr, old) ==
    pr.review_state = "Requested"

is_new_review_request(pr, old) ==
    IF pr.review_state /= "Requested" THEN FALSE
    ELSE IF ~IsSome(old) THEN TRUE
    ELSE Unwrap(old).last_review_state /= Some("requested")

\* is_new_ci_failure without the comparison of the head commits.
is_new_ci_failure_NoSha(pr, old) ==
    IF pr.ci_state /= "Failure" THEN FALSE
    ELSE IF ~IsSome(old) THEN TRUE
    ELSE Unwrap(old).last_ci_state /= Some("failure")

\* is_new_ci_failure that takes a PR without a prior row for known.
is_new_ci_failure_NoRowNotNew(pr, old) ==
    IF pr.ci_state /= "Failure" THEN FALSE
    ELSE IF ~IsSome(old) THEN FALSE
    ELSE Unwrap(old).last_ci_state /= Some("failure")
             \/ Unwrap(old).last_commit_sha /= pr.last_commit_sha

is_new_ci_failure(pr, old) ==
    IF pr.ci_state /= "Failure" THEN FALSE
    ELSE IF ~IsSome(old) THEN TRUE
    ELSE LET old_ci == Unwrap(old).last_ci_state
             old_sha == Unwrap(old).last_commit_sha
             new_sha == pr.last_commit_sha
             commit_changed == old_sha /= new_sha
         IN old_ci /= Some("failure") \/ commit_changed

----------------------------------------------------------------------------
(* demo.rs *)

\* The keys of the model, "{owner}/{repo}#{number}".
K1 == "acme/repo#1"
K2 == "orbit/repo#1"
K3 == "acme/web#1"
PrKeys == {K1, K2, K3}

\* fnv1a_64(pr_key) % 11, tabulated for the keys of the model (the 64-bit
\* product is outside TLC's integers).
Fnv1aMod11(pr_key) ==
    CASE pr_key = "acme/repo#1" -> 9
      [] pr_key = "acme/web#1" -> 1
      [] pr_key = "orbit/repo#1" -> 0

seeded_last_opened_at(pr_key, now) ==
    LET h == Fnv1aMod11(pr_key)
    IN CASE h = 0 -> Some(saturating_sub(now, 23 * 60))
         [] h = 1 -> Some(saturating_sub(now, 3 * 3600))
         [] h = 2 -> Some(saturating_sub(now, 2 * 86400))
         [] OTHER -> None

----------------------------------------------------------------------------
(* db.rs *)

\* The prs table is a function from the stored pr_keys to their rows.
EmptyCache == [k \in {} |-> None]

load_all_prs(c) == c

\* upsert_pr whose ON CONFLICT clause leaves last_commit_sha out.
upsert_pr_KeepsOldSha(c, row, last_seen_at) ==
    IF row.pr_key \in DOMAIN c
    THEN [c EXCEPT ![row.pr_key] =
             [row EXCEPT !.last_seen_at = Some(last_seen_at),
                         !.last_opened_at = c[row.pr_key].last_opened_at,
                         !.last_commit_sha = c[row.pr_key].last_commit_sha]]
    ELSE (row.pr_key :> [row EXCEPT !.last_seen_at = Some(last_seen_at)]) @@ c

upsert_pr(c, row, last_seen_at) ==
    IF row.pr_key \in DOMAIN c
    THEN \* ON CONFLICT DO UPDATE SET: every column but last_opened_at
         [c EXCEPT ![row.pr_key] =
             [row EXCEPT !.last_seen_at = Some(last_seen_at),
                         !.last_opened_at = c[row.pr_key].last_opened_at]]
    ELSE (row.pr_key :> [row EXCEPT !.last_seen_at = Some(last_seen_at)]) @@ c

\* delete_prs_not_in without the branch for an empty keep list: NOT IN ()
\* deletes nothing.
delete_prs_not_in_NoEmptyBranch(c, keep_pr_keys) ==
    IF keep_pr_keys = {}
    THEN c
    ELSE [k \in (DOMAIN c) \cap keep_pr_keys |-> c[k]]

\* delete_prs_not_in with IN for NOT IN: it deletes the rows to keep.
delete_prs_not_in_DeletesKept(c, keep_pr_keys) ==
    IF keep_pr_keys = {}
    THEN EmptyCache
    ELSE [k \in (DOMAIN c) \ keep_pr_keys |-> c[k]]

delete_prs_not_in(c, keep_pr_keys) ==
    IF keep_pr_keys = {}
    THEN EmptyCache
    ELSE [k \in (DOMAIN c) \cap keep_pr_keys |-> c[k]]

----------------------------------------------------------------------------
(* refresh.rs: the refresh cycle *)

ScopeFilters_matches(scope, pr) ==
    IF scope.orgs /= {} /\ pr.owner \notin scope.orgs THEN FALSE
    ELSE LET full == <<pr.owner, pr.repo>>
         IN IF scope.include_repos /= {} /\ full \notin scope.include_repos THEN FALSE
            ELSE IF full \in scope.exclude_repos THEN FALSE
            ELSE TRUE

ci_to_db(ci) == CiState_as_str(ci)
review_to_db(r) == ReviewState_as_str(r)
draft_to_db(v) == IF v THEN 1 ELSE 0

\* The serialized checks are the tagged list; an empty list is stored as NULL.
ci_checks_to_db_json(checks) ==
    IF checks = <<>> THEN None ELSE Some([json |-> checks])

\* Ordering::Less of the comparator of sort_by: a sorts before b.
SortsBefore(a, b) ==
    \/ a.score > b.score
    \/ a.score = b.score /\ a.pr.updated_at_unix > b.pr.updated_at_unix

RECURSIVE InsertSorted(_, _, _)
\* Insert x into the sorted s[i..], behind every element it does not sort before.
InsertSorted(s, x, i) ==
    IF i > Len(s) THEN Append(s, x)
    ELSE IF SortsBefore(x, s[i])
         THEN SubSeq(s, 1, i - 1) \o <<x>> \o SubSeq(s, i, Len(s))
         ELSE InsertSorted(s, x, i + 1)

\* sort_by that leaves the list in the order it was built in.
sort_by_KeepsOrder(s) == s

RECURSIVE sort_by(_)
\* Vec::sort_by is a stable sort.
sort_by(s) ==
    IF s = <<>> THEN <<>>
    ELSE InsertSorted(sort_by(SubSeq(s, 1, Len(s) - 1)), s[Len(s)], 1)

RECURSIVE FilterPrs(_, _, _)
\* .filter(updated_at_unix >= cutoff_ts).filter(scope.matches)
FilterPrs(prs, cutoff_ts, scope) ==
    IF prs = <<>> THEN <<>>
    ELSE LET p == Head(prs)
             rest == FilterPrs(Tail(prs), cutoff_ts, scope)
         IN IF p.updated_at_unix >= cutoff_ts /\ ScopeFilters_matches(scope, p)
            THEN <<p>> \o rest
            ELSE rest

KeysOf(prs) == {prs[i].pr_key : i \in 1..Len(prs)}

\* The row refresh() builds for one PR.
DbRowOf(pr, now, last_opened_at) ==
    [pr_key |-> pr.pr_key,
     owner |-> pr.owner,
     repo |-> pr.repo,
     number |-> pr.number,
     author |-> Some(pr.author),
     title |-> pr.title,
     updated_at_unix |-> Some(pr.updated_at_unix),
     last_commit_sha |-> pr.last_commit_sha,
     last_ci_state |-> Some(ci_to_db(pr.ci_state)),
     last_review_state |-> Some(review_to_db(pr.review_state)),
     ci_checks_json |-> ci_checks_to_db_json(pr.ci_checks),
     is_draft |-> Some(draft_to_db(pr.is_draft)),
     last_seen_at |-> Some(now),
     last_opened_at |-> last_opened_at]

\* The UiPr refresh() pushes for one PR.
UiPrOf(pr, old, now, last_opened_at) ==
    LET new_review == is_new_review_request(pr, old)
        new_ci_failure == is_new_ci_failure(pr, old)
        score == score_pr(pr, old, now, new_ci_failure)
    IN [pr |-> pr,
        score |-> score,
        category |-> category_for(score),
        last_opened_at |-> last_opened_at,
        is_new_review_request |-> new_review,
        is_new_ci_failure |-> new_ci_failure]

Lookup(existing, k) == IF k \in DOMAIN existing THEN Some(existing[k]) ELSE None

RefreshLastOpenedAt(old, pr, now) ==
    IF IsSome(old) /\ IsSome(Unwrap(old).last_opened_at)
    THEN Unwrap(old).last_opened_at
    ELSE seeded_last_opened_at(pr.pr_key, now)

RECURSIVE RefreshLoop(_, _, _, _, _, _, _)
\* The body of `for pr in prs`, from prs[i] on; the upsert of prs[fail_at] fails.
RefreshLoop(c, existing, prs, i, now, out, fail_at) ==
    IF i > Len(prs) THEN [cache |-> c, ok |-> TRUE, out |-> out]
    ELSE IF i = fail_at THEN [cache |-> c, ok |-> FALSE, out |-> <<>>]
    ELSE LET pr == prs[i]
             old == Lookup(existing, pr.pr_key)
             last_opened_at == RefreshLastOpenedAt(old, pr, now)
             db_row == DbRowOf(pr, now, last_opened_at)
         IN RefreshLoop(upsert_pr(c, db_row, now), existing, prs, i + 1, now,
                        Append(out, UiPrOf(pr, old, now, last_opened_at)), fail_at)

\* refresh() that takes a failed fetch for an empty result and prunes.
refresh_PrunesOnFetchError(c, fetched, now, cutoff_days, scope, fault, fail_at) ==
    IF fault = "load" THEN [cache |-> c, ok |-> FALSE, out |-> <<>>]
    ELSE IF fault = "fetch"
    THEN [cache |-> delete_prs_not_in(c, {}), ok |-> FALSE, out |-> <<>>]
    ELSE
    LET cutoff_ts == saturating_sub(now, cutoff_days * 86400)
        prs == FilterPrs(fetched, cutoff_ts, scope)
        looped == RefreshLoop(c, load_all_prs(c), prs, 1, now, <<>>,
                              IF fault = "upsert" THEN fail_at ELSE 0)
    IN IF ~looped.ok \/ fault = "delete"
       THEN [cache |-> looped.cache, ok |-> FALSE, out |-> <<>>]
       ELSE [cache |-> delete_prs_not_in(looped.cache, KeysOf(prs)),
             ok |-> TRUE, out |-> sort_by(looped.out)]

\* refresh(): the cache it leaves and the result it returns.  `fetched` is what
\* the remote returns when the fetch succeeds.
refresh(c, fetched, now, cutoff_days, scope, fault, fail_at) ==
    IF fault = "load" THEN [cache |-> c, ok |-> FALSE, out |-> <<>>]
    ELSE
    LET existing == load_all_prs(c)
        cutoff_ts == saturating_sub(now, cutoff_days * 86400)
    IN IF fault = "fetch" THEN [cache |-> c, ok |-> FALSE, out |-> <<>>]
       ELSE
       LET prs == FilterPrs(fetched, cutoff_ts, scope)
           keep_keys == KeysOf(prs)
           looped == RefreshLoop(c, existing, prs, 1, now, <<>>,
                                 IF fault = "upsert" THEN fail_at ELSE 0)
       IN IF ~looped.ok
          THEN [cache |-> looped.cache, ok |-> FALSE, out |-> <<>>]
          ELSE IF fault = "delete"
          THEN [cache |-> looped.cache, ok |-> FALSE, out |-> <<>>]
          ELSE [cache |-> delete_prs_not_in(looped.cache, keep_keys),
                ok |-> TRUE, out |-> sort_by(looped.out)]

RECURSIVE RefreshDemoLoop(_, _, _, _, _, _, _)
\* The body of refresh_demo's `for pr in prs`: last_opened_at is the prior
\* row's, and nothing else.
RefreshDemoLoop(c, existing, prs, i, now, out, fail_at) ==
    IF i > Len(prs) THEN [cache |-> c, ok |-> TRUE, out |-> out]
    ELSE IF i = fail_at THEN [cache |-> c, ok |-> FALSE, out |-> <<>>]
    ELSE LET pr == prs[i]
             old == Lookup(existing, pr.pr_key)
             last_opened_at == IF IsSome(old) THEN Unwrap(old).last_opened_at ELSE None
             db_row == DbRowOf(pr, now, last_opened_at)
         IN RefreshDemoLoop(upsert_pr(c, db_row, now), existing, prs, i + 1, now,
                            Append(out, UiPrOf(pr, old, now, last_opened_at)), fail_at)

\* refresh_demo(): refresh() with generate_demo_prs in the place of the fetch.
refresh_demo(c, generated, now, cutoff_days, scope, fault, fail_at) ==
    IF fault = "load" THEN [cache |-> c, ok |-> FALSE, out |-> <<>>]
    ELSE
    LET existing == load_all_prs(c)
        cutoff_ts == saturating_sub(now, cutoff_days * 86400)
        prs == FilterPrs(generated, cutoff_ts, scope)
        keep_keys == KeysOf(prs)
        looped == RefreshDemoLoop(c, existing, prs, 1, now, <<>>,
                                  IF fault = "upsert" THEN fail_at ELSE 0)
    IN IF ~looped.ok
       THEN [cache |-> looped.cache, ok |-> FALSE, out |-> <<>>]
       ELSE IF fault = "delete"
       THEN [cache |-> looped.cache, ok |-> FALSE, out |-> <<>>]
       ELSE [cache |-> delete_prs_not_in(looped.cache, keep_keys),
             ok |-> TRUE, out |-> sort_by(looped.out)]

----------------------------------------------------------------------------
(* The fetched PRs and the prior caches of the model *)

\* The number, author and title of the PR behind each key of the model.
PrNumber(pr_key) == 1
PrAuthor(pr_key) == IF pr_key = K2 THEN "bo" ELSE "ana"
PrTitle(pr_key) ==
    CASE pr_key = K1 -> "Fix"
      [] pr_key = K2 -> "Req"
      [] pr_key = K3 -> "Web"

MkPr(key, owner, repo, ci, review, sha, age, checks, draft) ==
    [pr_key |-> key, owner |-> owner, repo |-> repo,
     number |-> PrNumber(key), author |-> PrAuthor(key), title |-> PrTitle(key),
     updated_at_unix |-> T0 - age,
     last_commit_sha |-> sha,
     ci_state |-> ci,
     ci_checks |-> checks,
     review_state |-> review,
     is_draft |-> draft]

MkCheck(st, started) == [state |-> st, started_at_unix |-> started]

\* What the remote can report: K1 failing on commit a or on commit b; K2 a
\* draft, running and requested, or approved two days ago.
PrPool ==
    { MkPr(K1, "acme", "repo", "Failure", "None", Some("aaaaaaa"), 60, <<>>, FALSE),
      MkPr(K1, "acme", "repo", "Failure", "None", Some("bbbbbbb"), 60, <<>>, FALSE),
      MkPr(K2, "orbit", "repo", "Running", "Requested", None, 60,
           <<MkCheck("Running", Some(T0 - 700))>>, TRUE),
      MkPr(K2, "orbit", "repo", "None", "Approved", None, 172800, <<>>, FALSE) }

DistinctKeys(prs) == \A i, j \in 1..Len(prs) : prs[i].pr_key = prs[j].pr_key => i = j

\* fetch_attention_prs returns one PR per key, in no particular order.
FetchLists ==
    {prs \in UNION {[1..n -> PrPool] : n \in 0..MaxFetch} : DistinctKeys(prs)}

NoScope == [orgs |-> {}, include_repos |-> {}, exclude_repos |-> {}]

\* --days and the scope lists: the default; a one-day window; one organisation;
\* both organisations and repositories listed, one of the repositories excluded.
Scopes ==
    { [days |-> 30, scope |-> NoScope],
      [days |-> 1, scope |-> NoScope],
      [days |-> 30, scope |-> [NoScope EXCEPT !.orgs = {"acme"}]],
      [days |-> 30, scope |-> [orgs |-> {"acme", "orbit"},
                               include_repos |-> {<<"acme", "repo">>, <<"orbit", "repo">>},
                               exclude_repos |-> {<<"orbit", "repo">>}]] }

\* A cache left by an earlier run: K1 failing on commit a and opened by the
\* user, K3 stored before the columns other than the first six existed.
OldRowK1 ==
    [DbRowOf(MkPr(K1, "acme", "repo", "Failure", "None", Some("aaaaaaa"), 600, <<>>, FALSE),
             T0 - 300, Some(T0 - 200)) EXCEPT !.last_seen_at = Some(T0 - 300)]
OldRowK3 ==
    [pr_key |-> K3, owner |-> "acme", repo |-> "web",
     number |-> 1, author |-> None, title |-> "Web",
     updated_at_unix |-> None, last_commit_sha |-> None,
     last_ci_state |-> Some("failure"), last_review_state |-> Some("none"),
     ci_checks_json |-> None, is_draft |-> None,
     last_seen_at |-> Some(T0 - 300), last_opened_at |-> None]

InitCaches ==
    { EmptyCache,
      (K1 :> OldRowK1) @@ (K3 :> OldRowK3) }

----------------------------------------------------------------------------
(* One refresh cycle on the cache *)

NoCycle ==
    [outcome |-> "none", fault |-> "none", now |-> 0, fetched |-> <<>>, out |-> <<>>]

\* refresh() runs once at time clock: the remote returns `fetched` unless the
\* fetch fails.
RunRefresh(fetched, fault, fail_at) ==
    LET r == refresh(cache, fetched, clock, cfg.days, cfg.scope, fault, fail_at)
    IN /\ cache' = r.cache
       /\ cycle' = [outcome |-> IF r.ok THEN "ok" ELSE "err",
                    fault |-> fault,
                    now |-> clock,
                    fetched |-> fetched,
                    out |-> r.out]

\* How a cycle can go, <<fetched, fault, fail_at>>: the read of the table or
\* the fetch fails and nothing is fetched; or the remote returns a list, and
\* the cycle completes, or the upsert of its fail_at-th PR fails, or the prune
\* fails.
CycleRuns ==
    {<<(<<>>), f, 0>> : f \in {"load", "fetch"}}
        \cup {<<l, f, 0>> : l \in FetchLists, f \in {"none", "delete"}}
        \cup {run \in {<<l, "upsert", i>> : l \in FetchLists, i \in 1..MaxFetch} :
                  run[3] <= Len(run[1])}

\* The time from the start of one cycle to the start of the next.
CycleSecs == 180

----------------------------------------------------------------------------
(* refresh.rs: the cached list shown at startup *)

\* A ci_checks_json text that is not the JSON of a list of checks.
MalformedJson == [garbage |-> "{"]

\* parse_ci_checks_json that makes one check of a text it cannot read.
parse_ci_checks_json_KeepsGarbage(s) ==
    IF ~IsSome(s) THEN <<>>
    ELSE IF "json" \in DOMAIN Unwrap(s) THEN Unwrap(s).json
    ELSE <<MkCheck("None", None)>>

\* serde_json::from_str::<Vec<CiCheck>>(s).unwrap_or_else(|_| Vec::new())
parse_ci_checks_json(s) ==
    IF ~IsSome(s) THEN <<>>
    ELSE IF "json" \in DOMAIN Unwrap(s) THEN Unwrap(s).json
    ELSE <<>>

\* The Pr load_cached rebuilds from a row, with updated_at_unix already chosen.
PrOfRow(row, updated_at_unix) ==
    [pr_key |-> row.pr_key, owner |-> row.owner, repo |-> row.repo,
     number |-> row.number,
     author |-> IF IsSome(row.author) THEN Unwrap(row.author) ELSE "unknown",
     title |-> row.title,
     updated_at_unix |-> updated_at_unix,
     last_commit_sha |-> row.last_commit_sha,
     ci_state |-> parse_ci_state(row.last_ci_state),
     ci_checks |-> parse_ci_checks_json(row.ci_checks_json),
     review_state |-> parse_review_state(row.last_review_state),
     is_draft |-> (IF IsSome(row.is_draft) THEN Unwrap(row.is_draft) ELSE 0) /= 0]

RECURSIVE LoadCachedLoop(_, _, _, _, _, _)
\* The body of `for (_k, row) in existing`, the rows taken in the order `order`.
LoadCachedLoop(existing, order, i, now, cutoff_ts, scope) ==
    IF i > Len(order) THEN <<>>
    ELSE LET row == existing[order[i]]
             updated_at_unix ==
                 IF IsSome(row.updated_at_unix) THEN Unwrap(row.updated_at_unix)
                 ELSE IF IsSome(row.last_seen_at) THEN Unwrap(row.last_seen_at)
                 ELSE now
             pr == PrOfRow(row, updated_at_unix)
             score == score_pr(pr, None, now, FALSE)
             rest == LoadCachedLoop(existing, order, i + 1, now, cutoff_ts, scope)
         IN IF updated_at_unix < cutoff_ts \/ ~ScopeFilters_matches(scope, pr)
            THEN rest
            ELSE <<[pr |-> pr,
                    score |-> score,
                    category |-> category_for(score),
                    last_opened_at |-> row.last_opened_at,
                    is_new_review_request |-> FALSE,
                    is_new_ci_failure |-> FALSE]>> \o rest

\* load_cached that applies no cutoff to the rows.
load_cached_NoCutoff(c, now, cutoff_days, scope, order) ==
    sort_by(LoadCachedLoop(load_all_prs(c), order, 1, now, saturating_sub(now, now), scope))

\* load_cached; `order` is the order in which the HashMap yields the rows.
load_cached(c, now, cutoff_days, scope, order) ==
    sort_by(LoadCachedLoop(load_all_prs(c), order, 1, now,
                           saturating_sub(now, cutoff_days * 86400), scope))

\* The orders in which a HashMap over the keys S can be iterated.
IterationOrders(S) ==
    {o \in [1..Cardinality(S) -> S] : \A i, j \in 1..Cardinality(S) : o[i] = o[j] => i = j}

----------------------------------------------------------------------------
(* tui.rs: strings of the filter *)

\* A filter text is a sequence of characters.  The characters of the strings
\* of the model:
Chars(s) ==
    CASE s = "acme" -> <<"a", "c", "m", "e">>
      [] s = "orbit" -> <<"o", "r", "b", "i", "t">>
      [] s = "repo" -> <<"r", "e", "p", "o">>
      [] s = "web" -> <<"w", "e", "b">>
      [] s = "ana" -> <<"a", "n", "a">>
      [] s = "bo" -> <<"b", "o">>
      [] s = "unknown" -> <<"u", "n", "k", "n", "o", "w", "n">>
      [] s = "Fix" -> <<"F", "i", "x">>
      [] s = "Req" -> <<"R", "e", "q">>
      [] s = "Web" -> <<"W", "e", "b">>

RECURSIVE Decimal(_)
\* format!("{}", n) for n >= 0
Decimal(n) ==
    LET digit == <<"0", "1", "2", "3", "4", "5", "6", "7", "8", "9">>[(n % 10) + 1]
    IN IF n < 10 THEN <<digit>> ELSE Decimal(n \div 10) \o <<digit>>

to_lowercase(cs) ==
    [i \in 1..Len(cs) |->
        CASE cs[i] = "F" -> "f"
          [] cs[i] = "R" -> "r"
          [] cs[i] = "W" -> "w"
          [] OTHER -> cs[i]]

RECURSIVE trim(_)
trim(cs) ==
    IF cs = <<>> THEN cs
    ELSE IF Head(cs) = " " THEN trim(Tail(cs))
    ELSE IF cs[Len(cs)] = " " THEN trim(SubSeq(cs, 1, Len(cs) - 1))
    ELSE cs

\* str::contains
contains(hay, needle) ==
    \E i \in 1..(Len(hay) - Len(needle) + 1) :
        SubSeq(hay, i, i + Len(needle) - 1) = needle

\* String::pop
pop(cs) == IF cs = <<>> THEN cs ELSE SubSeq(cs, 1, Len(cs) - 1)

----------------------------------------------------------------------------
(* tui.rs: the list, its filters and the selection *)

matches_filter(pr, query) ==
    IF trim(query) = <<>> THEN TRUE
    ELSE LET q == to_lowercase(trim(query))
             repo == to_lowercase(Chars(pr.pr.owner) \o <<"/">> \o Chars(pr.pr.repo))
             author == to_lowercase(Chars(pr.pr.author))
             title == to_lowercase(Chars(pr.pr.title))
             num == <<"#">> \o Decimal(pr.pr.number)
         IN \/ contains(repo, q)
            \/ contains(author, q)
            \/ contains(title, q)
            \/ contains(num, trim(query))

\* The positions (from 1) of the PRs that pass the filters, in list order.
filtered_indices(state_prs, query, only_needs_you, only_failing_ci, only_review_requested) ==
    LET passes(idx) ==
            LET pr == state_prs[idx]
            IN /\ ~(only_needs_you /\ pr.category /= "NeedsYou")
               /\ ~(only_failing_ci /\ pr.pr.ci_state /= "Failure")
               /\ ~(only_review_requested /\ pr.pr.review_state /= "Requested")
               /\ matches_filter(pr, query)
    IN SelectSeq([i \in 1..Len(state_prs) |-> i], passes)

\* let cats = [ ... ]: the sections of the list, in the order they are drawn
ListCats == <<"ReadyToMerge", "NeedsYou", "Waiting", "Stale">>

\* The rows of one section when drafts are not skipped.
SectionRows_WithDrafts(prs, filtered, cat) ==
    LET in_section(idx) == prs[idx].category = cat
    IN SelectSeq(filtered, in_section)

\* Rows in this category: the filtered PRs that are no draft and are in cat
SectionRows(prs, filtered, cat) ==
    LET in_section(idx) == ~prs[idx].pr.is_draft /\ prs[idx].category = cat
    IN SelectSeq(filtered, in_section)

\* The rows of the DRAFT section: the filtered PRs that are drafts
DraftRows(prs, filtered) ==
    LET is_draft(idx) == prs[idx].pr.is_draft
    IN SelectSeq(filtered, is_draft)

\* The visible_pr_indices of build_list_lines on a terminal tall enough for
\* every row: the sections in order, the drafts last.
build_list_lines(prs, filtered) ==
    LET F[i \in 0..Len(ListCats)] ==
            IF i = 0 THEN <<>>
            ELSE F[i - 1] \o SectionRows(prs, filtered, ListCats[i])
    IN F[Len(ListCats)] \o DraftRows(prs, filtered)

clamp_selection(selected, visible_len) ==
    IF visible_len = 0 THEN 0
    ELSE IF selected >= visible_len THEN visible_len - 1
    ELSE selected

AppState_new(prs, now) ==
    [prs |-> prs,
     selected_idx |-> 0,
     mode |-> "List",
     details_pr_key |-> None,
     refreshing |-> FALSE,
     shimmer_phase |-> 0,
     details_ci_selected |-> 0,
     details_last_auto_refresh |-> None,
     last_refresh_started |-> Some(now),
     help_open |-> FALSE,
     filter_query |-> <<>>,
     filter_editing |-> FALSE,
     filter_edit |-> <<>>,
     filter_prev_query |-> <<>>,
     only_needs_you |-> FALSE,
     only_failing_ci |-> FALSE,
     only_review_requested |-> FALSE]

\* state.prs.iter().find(|p| p.pr.pr_key == k), for an Option k
FindPr(prs, k) ==
    IF IsSome(k) /\ \E i \in 1..Len(prs) : prs[i].pr.pr_key = Unwrap(k)
    THEN Some(prs[CHOOSE i \in 1..Len(prs) :
                      /\ prs[i].pr.pr_key = Unwrap(k)
                      /\ \A j \in 1..(i - 1) : prs[j].pr.pr_key /= Unwrap(k)])
    ELSE None

\* The PR at the position of the cursor in state.prs, not in the visible rows.
SelectedPr_ListIndex(st, vis) ==
    IF st.selected_idx < Len(st.prs) THEN Some(st.prs[st.selected_idx + 1]) ELSE None

\* visible_for_events.get(selected_idx), then state.prs.get(pr_idx)
SelectedPr(st, vis) ==
    IF st.selected_idx < Len(vis) /\ vis[st.selected_idx + 1] <= Len(st.prs)
    THEN Some(st.prs[vis[st.selected_idx + 1]])
    ELSE None

----------------------------------------------------------------------------
(* tui.rs: key events *)

Key(code) == [code |-> code, ctrl |-> FALSE]
Ctrl(code) == [code |-> code, ctrl |-> TRUE]

\* KeyCode::Char(ch): the codes of one character
IsChar(k) == k.code \in {"r", "q", "?", "/", "f", "x", "n", "c", "v"}

SelectUp(st, vis) ==
    LET n == Len(vis)
    IN IF n = 0 THEN st
       ELSE IF st.selected_idx = 0 THEN [st EXCEPT !.selected_idx = n - 1]
       ELSE [st EXCEPT !.selected_idx = @ - 1]

SelectDown(st, vis) ==
    LET n == Len(vis)
    IN IF n = 0 THEN st
       ELSE IF st.selected_idx + 1 >= n THEN [st EXCEPT !.selected_idx = 0]
       ELSE [st EXCEPT !.selected_idx = @ + 1]

\* The keys read while the help overlay is open.
HelpKeys(st, k) ==
    IF k.code \in {"?", "Esc", "q"} THEN [st EXCEPT !.help_open = FALSE] ELSE st

\* The keys read while the filter is being edited.
FilterKeys(st, k, vis) ==
    CASE k.code = "Up" -> IF st.mode = "List" THEN SelectUp(st, vis) ELSE st
      [] k.code = "Down" -> IF st.mode = "List" THEN SelectDown(st, vis) ELSE st
      [] k.code = "Esc" ->
            [st EXCEPT !.filter_prev_query = <<>>, !.filter_edit = <<>>,
                       !.filter_query = <<>>, !.filter_editing = FALSE,
                       !.selected_idx = 0]
      [] k.code = "Backspace" ->
            [st EXCEPT !.filter_edit = pop(@), !.filter_query = pop(st.filter_edit)]
      [] k.code = "Enter" ->
            [st EXCEPT !.filter_editing = FALSE, !.filter_edit = <<>>]
      [] k.code = "x" /\ k.ctrl ->
            [st EXCEPT !.filter_prev_query = <<>>, !.filter_edit = <<>>,
                       !.filter_query = <<>>, !.only_needs_you = FALSE,
                       !.only_failing_ci = FALSE, !.only_review_requested = FALSE,
                       !.selected_idx = 0]
      [] k.code = "n" /\ k.ctrl ->
            [st EXCEPT !.only_needs_you = ~@, !.selected_idx = 0]
      [] k.code = "c" /\ k.ctrl ->
            [st EXCEPT !.only_failing_ci = ~@, !.selected_idx = 0]
      [] k.code = "v" /\ k.ctrl ->
            [st EXCEPT !.only_review_requested = ~@, !.selected_idx = 0]
      [] OTHER ->
            IF IsChar(k)
            THEN [st EXCEPT !.filter_edit = Append(@, k.code),
                            !.filter_query = Append(st.filter_edit, k.code)]
            ELSE st

\* The keys of the main match other than 'q' and 'r'.
NormalKeys(st, k, vis, now) ==
    CASE k.code = "?" -> [st EXCEPT !.help_open = ~@]
      [] k.code = "Esc" ->
            IF /\ st.mode = "List"
               /\ \/ st.filter_query /= <<>>
                  \/ st.only_needs_you
                  \/ st.only_failing_ci
                  \/ st.only_review_requested
            THEN [st EXCEPT !.filter_query = <<>>, !.only_needs_you = FALSE,
                            !.only_failing_ci = FALSE, !.only_review_requested = FALSE,
                            !.selected_idx = 0]
            ELSE st
      [] k.code = "/" ->
            IF st.mode = "List" /\ ~st.filter_editing
            THEN [st EXCEPT !.filter_editing = TRUE,
                            !.filter_prev_query = st.filter_query,
                            !.filter_edit = st.filter_query,
                            !.selected_idx = 0]
            ELSE st
      [] k.code = "x" ->
            IF st.mode = "List" /\ ~st.filter_editing
            THEN [st EXCEPT !.filter_query = <<>>, !.only_needs_you = FALSE,
                            !.only_failing_ci = FALSE, !.only_review_requested = FALSE,
                            !.selected_idx = 0]
            ELSE st
      [] k.code = "n" ->
            IF st.mode = "List" /\ ~st.filter_editing
            THEN [st EXCEPT !.only_needs_you = ~@, !.selected_idx = 0]
            ELSE st
      [] k.code = "c" ->
            IF st.mode = "List" /\ ~st.filter_editing
            THEN [st EXCEPT !.only_failing_ci = ~@, !.selected_idx = 0]
            ELSE st
      [] k.code = "v" ->
            IF st.mode = "List" /\ ~st.filter_editing
            THEN [st EXCEPT !.only_review_requested = ~@, !.selected_idx = 0]
            ELSE st
      [] k.code = "Tab" ->
            IF st.mode = "List"
            THEN IF IsSome(SelectedPr(st, vis))
                 THEN [st EXCEPT !.details_pr_key = Some(Unwrap(SelectedPr(st, vis)).pr.pr_key),
                                 !.mode = "Details",
                                 !.details_ci_selected = 0,
                                 !.details_last_auto_refresh = Some(now)]
                 ELSE st
            ELSE [st EXCEPT !.mode = "List", !.details_last_auto_refresh = None]
      [] k.code = "Enter" ->
            \* open_in_browser(url) for the selected PR or check: the opener is
            \* spawned and no field of the state or of the PR is written
            st
      [] k.code = "Up" ->
            IF st.mode = "List" THEN SelectUp(st, vis)
            ELSE IF st.details_ci_selected > 0
                 THEN [st EXCEPT !.details_ci_selected = @ - 1]
                 ELSE st
      [] k.code = "Down" ->
            IF st.mode = "List" THEN SelectDown(st, vis)
            ELSE LET found == FindPr(st.prs, st.details_pr_key)
                     ci_len == IF IsSome(found) THEN Len(Unwrap(found).pr.ci_checks) ELSE 0
                 IN IF ci_len > 0 /\ st.details_ci_selected + 1 < ci_len
                    THEN [st EXCEPT !.details_ci_selected = @ + 1]
                    ELSE st
      [] OTHER -> st   \* 'f' and Enter hand a URL to the browser and change no state

----------------------------------------------------------------------------
(* tui.rs: refresh workers *)

\* mpsc::channel() and thread::spawn: a worker with a fresh channel.  A
\* finished worker whose receiver is replaced goes with its channel; a running
\* one keeps running.
NoWorkers == <<>>
NewWorkerId == CHOOSE id \in 1..(Cardinality(DOMAIN workers) + 1) :
                   /\ id \notin DOMAIN workers
                   /\ \A j \in 1..(id - 1) : j \in DOMAIN workers
Running(w) == {id \in DOMAIN w : w[id].st = "running"}
Spawn ==
    /\ refresh_rx' = Some(NewWorkerId)
    /\ workers' = (NewWorkerId :> [st |-> "running", msg |-> None])
                      @@ [id \in Running(workers) |-> workers[id]]

\* refreshing = true; shimmer_phase = 0; last_refresh_started = Some(now)
StartRefresh(st, now) ==
    [st EXCEPT !.refreshing = TRUE, !.shimmer_phase = 0,
               !.last_refresh_started = Some(now)]

\* The closure main() hands to run_tui: open the database, then refresh(), or
\* refresh_demo() with --demo.
refresh_fn(c, fetched, now, fault, fail_at) ==
    IF fault = "open" THEN [cache |-> c, ok |-> FALSE, out |-> <<>>]
    ELSE IF cfg.demo
    THEN refresh_demo(c, fetched, now, cfg.days, cfg.scope, fault, fail_at)
    ELSE refresh(c, fetched, now, cfg.days, cfg.scope, fault, fail_at)

\* What the remote reports during a session, and how a worker's cycle can go.
TuiFetchLists ==
    { <<>>,
      <<MkPr(K1, "acme", "repo", "Failure", "None", Some("bbbbbbb"), 60, <<>>, FALSE)>>,
      <<MkPr(K1, "acme", "repo", "Failure", "None", Some("aaaaaaa"), 60, <<>>, FALSE),
        MkPr(K2, "orbit", "repo", "Running", "Requested", None, 60,
             <<MkCheck("Running", Some(T0 - 700))>>, TRUE)>> }
TuiRuns ==
    {<<l, "none", 0>> : l \in TuiFetchLists} \cup {<<(<<>>), "fetch", 0>>}

\* What generate_demo_prs(now, tick) returns from tick to tick, never empty, and
\* how a demo worker's cycle can go.
DemoLists == TuiFetchLists \ {<<>>}
DemoRuns ==
    {<<l, "none", 0>> : l \in DemoLists} \cup {<<(<<>>), "open", 0>>}

\* Dropping the receiver frees the channel of a worker that has finished.
DropReceiver(w, id) == [i \in (DOMAIN w) \ {id} |-> w[i]]

\* The worker thread: rf() runs one cycle against the cache, and the result is
\* sent unless the receiver is gone.
WorkerRun(id) ==
    /\ pc /= "exited"
    /\ id \in Running(workers)
    /\ \E run \in (IF cfg.demo THEN DemoRuns ELSE TuiRuns) :
        LET r == refresh_fn(cache, run[1], clock, run[2], run[3])
        IN /\ cache' = r.cache
           /\ workers' = IF refresh_rx = Some(id)
                         THEN [workers EXCEPT ![id] =
                                  [st |-> "sent", msg |-> Some([ok |-> r.ok, prs |-> r.out])]]
                         ELSE DropReceiver(workers, id)
    /\ last_key' = None
    /\ alerts' = {}
    /\ UNCHANGED <<state, refresh_rx, seen_repos, shown_repos, visible, cursor, pc, last_result, nkeys,
                   cfg, startup, clock, cycle, fnVars>>

\* The worker thread ends without sending: the sender is dropped.
WorkerDie(id) ==
    /\ pc /= "exited"
    /\ id \in Running(workers)
    /\ workers' = IF refresh_rx = Some(id)
                  THEN [workers EXCEPT ![id] = [st |-> "dead", msg |-> None]]
                  ELSE DropReceiver(workers, id)
    /\ last_key' = None
    /\ alerts' = {}
    /\ UNCHANGED <<state, refresh_rx, seen_repos, shown_repos, visible, cursor, pc, last_result, nkeys,
                   cfg, startup, cache, clock, cycle, fnVars>>

----------------------------------------------------------------------------
(* tui.rs: run_tui *)

\* main(): the intervals of a config file that sets none
LIST_REFRESH_SECS == 180
DETAILS_REFRESH_SECS == 30
\* The intervals of a config file that sets both
CONFIGURED_LIST_SECS == 120
CONFIGURED_DETAILS_SECS == 15

\* Config::default(): no interval set
DefaultConfig ==
    [refresh_interval_list_secs |-> None, refresh_interval_details_secs |-> None]
\* A config file that sets both intervals
IntervalsConfig ==
    [refresh_interval_list_secs |-> Some(CONFIGURED_LIST_SECS),
     refresh_interval_details_secs |-> Some(CONFIGURED_DETAILS_SECS)]

\* main(): let refresh_intervals = RefreshIntervals { ... }
RefreshIntervals(config) ==
    [list_secs |-> IF IsSome(config.refresh_interval_list_secs)
                   THEN Unwrap(config.refresh_interval_list_secs)
                   ELSE LIST_REFRESH_SECS,
     details_secs |-> IF IsSome(config.refresh_interval_details_secs)
                      THEN Unwrap(config.refresh_interval_details_secs)
                      ELSE DETAILS_REFRESH_SECS]

\* run_tui's eighth argument, as main() passes it: the seconds each view waits
\* between automatic refreshes.
ListInterval == cfg.refresh_intervals.list_secs
DetailsInterval == cfg.refresh_intervals.details_secs

\* Everything run_tui's own steps leave alone.
LoopFrame == UNCHANGED <<last_result, nkeys, cfg, startup, cache, clock, cycle, fnVars>>

\* if start_refresh_immediately && !state.refreshing { ... }
StartupRefresh ==
    /\ pc = "startup"
    /\ IF cfg.start_refresh_immediately /\ ~state.refreshing
       THEN state' = StartRefresh(state, clock) /\ Spawn
       ELSE UNCHANGED <<state, refresh_rx, workers>>
    /\ pc' = "auto_list"
    /\ last_key' = None
    /\ alerts' = {}
    /\ UNCHANGED <<seen_repos, shown_repos, visible, cursor>>
    /\ LoopFrame

\* Auto refresh in list view that does not look at the refreshing flag.
AutoRefreshList_NoGate ==
    /\ pc = "auto_list"
    /\ IF /\ state.mode = "List"
          /\ (IsSome(state.last_refresh_started)
                 => clock - Unwrap(state.last_refresh_started) >= ListInterval)
       THEN state' = StartRefresh(state, clock) /\ Spawn
       ELSE UNCHANGED <<state, refresh_rx, workers>>
    /\ pc' = "auto_details"
    /\ last_key' = None
    /\ alerts' = {}
    /\ UNCHANGED <<seen_repos, shown_repos, visible, cursor>>
    /\ LoopFrame

\* Auto refresh in list view that waits until the interval is exceeded.
AutoRefreshList_Strict ==
    /\ pc = "auto_list"
    /\ IF /\ state.mode = "List"
          /\ ~state.refreshing
          /\ (IsSome(state.last_refresh_started)
                 => clock - Unwrap(state.last_refresh_started) > ListInterval)
       THEN state' = StartRefresh(state, clock) /\ Spawn
       ELSE UNCHANGED <<state, refresh_rx, workers>>
    /\ pc' = "auto_details"
    /\ last_key' = None
    /\ alerts' = {}
    /\ UNCHANGED <<seen_repos, shown_repos, visible, cursor>>
    /\ LoopFrame

\* Auto refresh in list view
AutoRefreshList ==
    /\ pc = "auto_list"
    /\ IF /\ state.mode = "List"
          /\ ~state.refreshing
          /\ (IsSome(state.last_refresh_started)
                 => clock - Unwrap(state.last_refresh_started) >= ListInterval)
       THEN state' = StartRefresh(state, clock) /\ Spawn
       ELSE UNCHANGED <<state, refresh_rx, workers>>
    /\ pc' = "auto_details"
    /\ last_key' = None
    /\ alerts' = {}
    /\ UNCHANGED <<seen_repos, shown_repos, visible, cursor>>
    /\ LoopFrame

\* Auto refresh in details view that waits on the timer of the list view.
AutoRefreshDetails_ListTimer ==
    /\ pc = "auto_details"
    /\ IF /\ state.mode = "Details"
          /\ ~state.refreshing
          /\ (IsSome(state.last_refresh_started)
                 => clock - Unwrap(state.last_refresh_started) >= DetailsInterval)
       THEN /\ state' = [StartRefresh(state, clock) EXCEPT
                            !.details_last_auto_refresh = Some(clock)]
            /\ Spawn
       ELSE UNCHANGED <<state, refresh_rx, workers>>
    /\ pc' = "poll"
    /\ last_key' = None
    /\ alerts' = {}
    /\ UNCHANGED <<seen_repos, shown_repos, visible, cursor>>
    /\ LoopFrame

\* Auto refresh in details view
AutoRefreshDetails ==
    /\ pc = "auto_details"
    /\ IF /\ state.mode = "Details"
          /\ ~state.refreshing
          /\ (IsSome(state.details_last_auto_refresh)
                 => clock - Unwrap(state.details_last_auto_refresh) >= DetailsInterval)
       THEN /\ state' = [StartRefresh(state, clock) EXCEPT
                            !.details_last_auto_refresh = Some(clock)]
            /\ Spawn
       ELSE UNCHANGED <<state, refresh_rx, workers>>
    /\ pc' = "poll"
    /\ last_key' = None
    /\ alerts' = {}
    /\ UNCHANGED <<seen_repos, shown_repos, visible, cursor>>
    /\ LoopFrame

\* The first n elements of a sequence.
Take(s, n) == SubSeq(s, 1, IF Len(s) < n THEN Len(s) ELSE n)
Range(s) == {s[i] : i \in 1..Len(s)}
RepoOf(p) == <<p.pr.owner, p.pr.repo>>
\* The keys of a list whatever the category.
CategoryKeys_AnyCategory(prs, cat) ==
    {prs[i].pr.pr_key : i \in 1..Len(prs)}

CategoryKeys(prs, cat) ==
    {prs[i].pr.pr_key : i \in {j \in 1..Len(prs) : prs[j].category = cat}}
Alert(kind, title, repo, n) == [kind |-> kind, title |-> title, repo |-> repo, n |-> n]
NoRepo == <<"", "">>

\* The bell and the notifications of a successful refresh.
RefreshAlerts(old_prs, new_prs, seen, bell_enabled, notify_enabled) ==
    LET old_needs == CategoryKeys(old_prs, "NeedsYou")
        old_ready_to_merge == CategoryKeys(old_prs, "ReadyToMerge")
        entered_needs(p) == p.category = "NeedsYou" /\ p.pr.pr_key \notin old_needs
        became_ready(p) ==
            p.category = "ReadyToMerge" /\ p.pr.pr_key \notin old_ready_to_merge
        new_ci_failure(p) == p.is_new_ci_failure
        new_review_request(p) == p.is_new_review_request
        prs_entered_needs_you == SelectSeq(new_prs, entered_needs)
        prs_became_ready_to_merge == SelectSeq(new_prs, became_ready)
        prs_new_ci_failure == SelectSeq(new_prs, new_ci_failure)
        prs_new_review_request == SelectSeq(new_prs, new_review_request)
        current_repos == {RepoOf(p) : p \in Range(new_prs)}
        new_repos == current_repos \ seen
    IN (IF bell_enabled /\ (prs_entered_needs_you /= <<>> \/ prs_new_ci_failure /= <<>>)
        THEN {Alert("bell", "", NoRepo, 0)} ELSE {})
       \cup
       (IF notify_enabled
        THEN {Alert("new_repo", "", r, 0) : r \in new_repos}
             \cup {Alert("ci_failure", p.pr.title, RepoOf(p), 0) :
                      p \in Range(Take(prs_new_ci_failure, 3))}
             \cup {Alert("review_requested", p.pr.title, RepoOf(p), 0) :
                      p \in Range(Take(prs_new_review_request, 3))}
             \cup (IF prs_entered_needs_you /= <<>>
                   THEN {Alert("needs_you", "", NoRepo, Len(prs_entered_needs_you))}
                   ELSE {})
             \cup {Alert("ready_to_merge", p.pr.title, RepoOf(p), 0) :
                      p \in Range(Take(prs_became_ready_to_merge, 3))}
        ELSE {})

\* Ok(Ok(new_prs)): state.prs = new_prs; state.refreshing = false
ApplyRefreshOk(st, new_prs) == [st EXCEPT !.prs = new_prs, !.refreshing = FALSE]

\* Ok(Err(_)) that also empties the list.
ApplyRefreshError_ClearsList(st) == [st EXCEPT !.refreshing = FALSE, !.prs = <<>>]

\* Ok(Err(_)) that leaves the refresh marked as in flight.
ApplyRefreshError_KeepsRefreshing(st) == st

\* Ok(Err(_e)) and Err(Disconnected): state.refreshing = false
ApplyRefreshError(st) == [st EXCEPT !.refreshing = FALSE]

\* shimmer_phase.wrapping_add(1) on the u8; the model follows the animation for
\* MaxShimmer iterations of one refresh and holds the phase there.
NextShimmer(phase) == IF phase < MaxShimmer THEN (phase + 1) % 256 ELSE phase

\* If a refresh is in flight, animate and apply the result when it is ready.
PollRefresh ==
    /\ pc = "poll"
    /\ IF ~state.refreshing
       THEN /\ alerts' = {}
            /\ UNCHANGED <<state, refresh_rx, seen_repos, shown_repos, workers, last_result>>
       ELSE LET st == [state EXCEPT !.shimmer_phase = NextShimmer(@)]
            IN IF ~IsSome(refresh_rx)
               THEN /\ state' = st
                    /\ alerts' = {}
                    /\ UNCHANGED <<refresh_rx, seen_repos, shown_repos, workers, last_result>>
               ELSE LET w == workers[Unwrap(refresh_rx)]
                    IN CASE w.st = "sent" /\ Unwrap(w.msg).ok ->
                              LET new_prs == Unwrap(w.msg).prs
                              IN /\ alerts' = RefreshAlerts(state.prs, new_prs, seen_repos,
                                                            cfg.bell_enabled, cfg.notify_enabled)
                                 /\ seen_repos' = {RepoOf(p) : p \in Range(new_prs)}
                                 /\ shown_repos' = shown_repos \cup {RepoOf(p) : p \in Range(new_prs)}
                                 /\ state' = ApplyRefreshOk(st, new_prs)
                                 /\ refresh_rx' = None
                                 /\ workers' = DropReceiver(workers, Unwrap(refresh_rx))
                                 /\ last_result' = "ok"
                         [] w.st = "sent" /\ ~Unwrap(w.msg).ok ->
                              /\ state' = ApplyRefreshError(st)
                              /\ refresh_rx' = None
                              /\ workers' = DropReceiver(workers, Unwrap(refresh_rx))
                              /\ last_result' = "err"
                              /\ alerts' = {}
                              /\ UNCHANGED <<seen_repos, shown_repos>>
                         [] w.st = "running" ->
                              /\ state' = st
                              /\ alerts' = {}
                              /\ UNCHANGED <<refresh_rx, seen_repos, shown_repos, workers, last_result>>
                         [] w.st = "dead" ->
                              /\ state' = ApplyRefreshError(st)
                              /\ refresh_rx' = None
                              /\ workers' = DropReceiver(workers, Unwrap(refresh_rx))
                              /\ last_result' = "disconnected"
                              /\ alerts' = {}
                              /\ UNCHANGED <<seen_repos, shown_repos>>
    /\ pc' = "draw"
    /\ last_key' = None
    /\ UNCHANGED <<visible, cursor, nkeys, cfg, startup, cache, clock, cycle, fnVars>>

\* A frame that stays in the details view when its PR has left the list.
FrameMode_StaysInDetails(st) == st

\* The frame's view of the state: Details falls back to List when the details
\* PR is no longer in the list.
FrameMode(st) ==
    IF st.mode = "Details" /\ ~IsSome(FindPr(st.prs, st.details_pr_key))
    THEN [st EXCEPT !.mode = "List"]
    ELSE st

\* visible_for_events of the frame
FrameVisible(st) ==
    IF FrameMode(st).mode = "List"
    THEN build_list_lines(st.prs, filtered_indices(st.prs, st.filter_query, st.only_needs_you,
                                                   st.only_failing_ci, st.only_review_requested))
    ELSE <<>>

\* The state the frame leaves: the selection clamped to the visible rows in List.
FrameState(st) ==
    IF FrameMode(st).mode = "List"
    THEN [FrameMode(st) EXCEPT !.selected_idx = clamp_selection(@, Len(FrameVisible(st)))]
    ELSE FrameMode(st)

\* The frame is built: the visible rows of the list, Details falling back to
\* the list when its PR is gone, the selection clamped.
Draw ==
    /\ pc = "draw"
    /\ visible' = FrameVisible(state)
    /\ cursor' = IF FrameMode(state).mode = "List" THEN Some(state.selected_idx) ELSE None
    /\ state' = FrameState(state)
    /\ pc' = "event"
    /\ last_key' = None
    /\ alerts' = {}
    /\ UNCHANGED <<refresh_rx, seen_repos, shown_repos, workers>>
    /\ LoopFrame

\* KeyCode::Char('r'): a refresh that starts although one is in flight.
ManualRefresh_NoGate ==
    /\ state' = StartRefresh(state, clock)
    /\ Spawn

\* KeyCode::Char('r'): a refresh in flight is restarted on its worker.
ManualRefresh_Restarts ==
    IF ~state.refreshing
    THEN state' = StartRefresh(state, clock) /\ Spawn
    ELSE state' = StartRefresh(state, clock) /\ UNCHANGED <<refresh_rx, workers>>

\* KeyCode::Char('r'): honoured only once the list interval has passed.
ManualRefresh_Throttled ==
    IF /\ ~state.refreshing
       /\ (IsSome(state.last_refresh_started)
              => clock - Unwrap(state.last_refresh_started) >= ListInterval)
    THEN state' = StartRefresh(state, clock) /\ Spawn
    ELSE UNCHANGED <<state, refresh_rx, workers>>

\* KeyCode::Char('r') that also restarts the details timer.
ManualRefresh_RestartsDetailsTimer ==
    IF ~state.refreshing
    THEN /\ state' = [StartRefresh(state, clock) EXCEPT
                         !.details_last_auto_refresh = Some(clock)]
         /\ Spawn
    ELSE UNCHANGED <<state, refresh_rx, workers>>

\* KeyCode::Char('r')
ManualRefresh ==
    IF ~state.refreshing
    THEN state' = StartRefresh(state, clock) /\ Spawn
    ELSE UNCHANGED <<state, refresh_rx, workers>>

\* The keys pressed in the model.
Keys == {Key(c) : c \in {"r", "q", "?", "/", "Tab", "Down", "Esc", "Enter"}}

\* The state a key press leaves, for every key but 'q' and 'r' of the main
\* match: the help overlay reads it first, then the filter being edited.
KeyState(st, k, vis, now) ==
    IF st.help_open THEN HelpKeys(st, k)
    ELSE IF st.filter_editing THEN FilterKeys(st, k, vis)
    ELSE NormalKeys(st, k, vis, now)

\* event::poll returns a key press and the key is handled.  A character is
\* typed into the filter only while the text is shorter than MaxFilterLen.
HandleKey(k) ==
    /\ pc = "event"
    /\ nkeys < MaxKeys
    /\ (state.filter_editing /\ ~state.help_open /\ IsChar(k) /\ ~k.ctrl)
           => Len(state.filter_edit) < MaxFilterLen
    /\ nkeys' = nkeys + 1
    /\ last_key' = Some(k)
    /\ alerts' = {}
    /\ IF ~state.help_open /\ ~state.filter_editing /\ k.code = "q"
       THEN /\ pc' = "exited"
            /\ UNCHANGED <<state, refresh_rx, workers>>
       ELSE IF ~state.help_open /\ ~state.filter_editing /\ k.code = "r"
       THEN /\ ManualRefresh
            /\ pc' = "auto_list"
       ELSE /\ state' = KeyState(state, k, visible, clock)
            /\ pc' = "auto_list"
            /\ UNCHANGED <<refresh_rx, workers>>
    /\ UNCHANGED <<seen_repos, shown_repos, visible, cursor, last_result, cfg, startup, cache, clock, cycle, fnVars>>

\* event::poll times out, or reads an event that is not a key press.
NoKey ==
    /\ pc = "event"
    /\ pc' = "auto_list"
    /\ last_key' = None
    /\ alerts' = {}
    /\ UNCHANGED <<state, refresh_rx, seen_repos, shown_repos, visible, cursor, workers, last_result, nkeys,
                   cfg, startup, cache, clock, cycle, fnVars>>

\* Time passes, up to one of the moments the model stops the clock at.
ClockStops == {T0 + d : d \in {i \in {DetailsInterval, ListInterval} : i <= MaxTime}}
Tick(t) ==
    /\ pc /= "exited"
    /\ t > clock
    /\ clock' = t
    /\ last_key' = None
    /\ alerts' = {}
    /\ UNCHANGED <<state, refresh_rx, seen_repos, shown_repos, visible, cursor, pc, workers, last_result,
                   nkeys, cfg, startup, cache, cycle, fnVars>>

\* The live session with --bell and notifications on and no interval configured,
\* the live session with both off and both intervals configured, and the --demo
\* session with both off and no interval configured; the default window and scope.
TuiCfgs ==
    { [days |-> 30, scope |-> NoScope, start_refresh_immediately |-> TRUE,
       bell_enabled |-> TRUE, notify_enabled |-> TRUE, demo |-> FALSE,
       config |-> DefaultConfig,
       refresh_intervals |-> RefreshIntervals(DefaultConfig)],
      [days |-> 30, scope |-> NoScope, start_refresh_immediately |-> TRUE,
       bell_enabled |-> FALSE, notify_enabled |-> FALSE, demo |-> FALSE,
       config |-> IntervalsConfig,
       refresh_intervals |-> RefreshIntervals(IntervalsConfig)],
      [days |-> 30, scope |-> NoScope, start_refresh_immediately |-> FALSE,
       bell_enabled |-> FALSE, notify_enabled |-> FALSE, demo |-> TRUE,
       config |-> DefaultConfig,
       refresh_intervals |-> RefreshIntervals(DefaultConfig)] }

\* What main() can meet before run_tui: nothing, open_db failing, or the load of
\* the cached rows failing (load_cached live, refresh_demo with --demo).
StartupFaults == {"none", "open", "load"}

\* The list main() builds the state from.  Live: the cached list; an error of
\* load_cached, here on the cache an earlier run left, gives the empty list.
\* Demo: refresh_demo runs twice on the demo database and the second result is
\* the list.
StartupLists(c0, fault) ==
    IF fault = "load"
    THEN IF cfg.demo \/ c0 = EmptyCache THEN {}
         ELSE { [cache |-> c0, prs |-> <<>>] }
    ELSE IF cfg.demo
    THEN { LET first == refresh_demo(c0, g1, T0, cfg.days, cfg.scope, "none", 0)
               second == refresh_demo(first.cache, g2, T0, cfg.days, cfg.scope, "none", 0)
           IN [cache |-> second.cache, prs |-> second.out] :
             g1 \in DemoLists, g2 \in DemoLists }
    ELSE { [cache |-> c0, prs |-> l] :
             l \in {load_cached(c0, T0, cfg.days, cfg.scope, o) :
                        o \in IterationOrders(DOMAIN c0)} }

\* main(): open_db failing prints the error and exits; otherwise the state is
\* built from the startup list, and run_tui starts with the repos of that list
\* seen.
Init ==
    /\ cfg \in TuiCfgs
    /\ clock = T0
    /\ \E c0 \in InitCaches : \E fault \in StartupFaults :
          IF fault = "open"
          THEN /\ startup = "open_failed"
               /\ pc = "exited"
               /\ cache = c0
               /\ state = AppState_new(<<>>, clock)
               /\ seen_repos = {}
               /\ shown_repos = {}
          ELSE \E start \in StartupLists(c0, fault) :
                  /\ startup = IF fault = "load" THEN "load_failed" ELSE "ok"
                  /\ pc = "startup"
                  /\ cache = start.cache
                  /\ state = AppState_new(start.prs, clock)
                  /\ seen_repos = {RepoOf(p) : p \in Range(start.prs)}
                  /\ shown_repos = {RepoOf(p) : p \in Range(start.prs)}
    /\ refresh_rx = None
    /\ visible = <<>>
    /\ cursor = None
    /\ workers = NoWorkers
    /\ alerts = {}
    /\ last_result = "none"
    /\ last_key = None
    /\ nkeys = 0
    /\ cycle = NoCycle
    /\ fn_in = None
    /\ fn_out = None

Next ==
    \/ StartupRefresh
    \/ AutoRefreshList
    \/ AutoRefreshDetails
    \/ PollRefresh
    \/ Draw
    \/ \E k \in Keys : HandleKey(k)
    \/ NoKey
    \/ \E id \in DOMAIN workers : WorkerRun(id)
    \/ \E id \in DOMAIN workers : WorkerDie(id)
    \/ \E t \in ClockStops : Tick(t)

Spec == Init /\ [][Next]_vars

----------------------------------------------------------------------------
(* SpecRefresh: refresh cycles alone *)

IdleTui ==
    /\ state = [mode |-> "List"]
    /\ refresh_rx = None
    /\ seen_repos = {}
    /\ shown_repos = {}
    /\ visible = <<>>
    /\ cursor = None
    /\ startup = "ok"
    /\ pc = "idle"
    /\ workers = <<>>
    /\ alerts = {}
    /\ last_result = "none"
    /\ last_key = None
    /\ nkeys = 0

RInit ==
    /\ IdleTui
    /\ cfg \in Scopes
    /\ cache \in InitCaches
    /\ clock = T0
    /\ cycle = NoCycle
    /\ fn_in = None
    /\ fn_out = None

\* A cycle runs at time clock, and CycleSecs have passed when the next one
\* starts (until the clock reaches its bound).
RRefresh ==
    /\ \E run \in CycleRuns : RunRefresh(run[1], run[2], run[3])
    /\ clock' = IF clock + CycleSecs <= T0 + MaxTime THEN clock + CycleSecs ELSE clock
    /\ UNCHANGED <<tuiVars, fnVars>>

RNext == RRefresh

SpecRefresh == RInit /\ [][RNext]_vars

----------------------------------------------------------------------------
(* SpecFn: the pure functions on drawn inputs *)

FnShas == {None, Some("aaaaaaa"), Some("bbbbbbb")}

\* Two moments one second apart, and ages that put updated_at and started_at
\* on either side of the two thresholds at those moments.
FnNows == {T0, T0 + 1}
FnAges == {60, CI_RUNNING_LONG_SECS, APPROVED_UNMERGED_OLD_SECS}

FnCheckLists ==
    { <<>>,
      <<MkCheck("Running", None)>>,
      <<MkCheck("Running", Some(T0 - CI_RUNNING_LONG_SECS))>>,
      <<MkCheck("Running", Some(T0 - 11 * 60))>>,
      <<MkCheck("Running", Some(T0 - 4 * 60))>>,
      <<MkCheck("Success", Some(T0 - 900)), MkCheck("Running", None)>>,
      <<MkCheck("Success", Some(T0 - 900)), MkCheck("Running", Some(T0 - 60))>>,
      <<MkCheck("Running", Some(T0 - 60)), MkCheck("Running", Some(T0 - 900)),
        MkCheck("Running", Some(T0 - CI_RUNNING_LONG_SECS))>> }

\* The prior rows: every stored CI and review string, NULL and a string no
\* version of the program writes included.
FnOldRows ==
    { [OldRowK1 EXCEPT !.last_ci_state = ci, !.last_review_state = rv,
                       !.last_commit_sha = sha] :
        ci \in {None, Some("failure"), Some("success"), Some("FAILURE")},
        rv \in {None, Some("requested"), Some("approved"), Some("none")},
        sha \in FnShas }

FnNoveltyInputs ==
    { [kind |-> "novelty",
       pr |-> MkPr(K1, "acme", "repo", ci, rv, sha, 60, <<>>, FALSE),
       old |-> old, now |-> now] :
        ci \in CiStates, rv \in ReviewStates, sha \in FnShas,
        old \in {None} \cup {Some(r) : r \in FnOldRows}, now \in {T0} }

FnScoreInputs ==
    { [kind |-> "score",
       pr |-> MkPr(K1, "acme", "repo", ci, rv, None, age, checks, FALSE),
       is_new_ci_failure |-> f, now |-> now, now2 |-> now2] :
        ci \in CiStates, rv \in ReviewStates, age \in FnAges,
        checks \in FnCheckLists, f \in BOOLEAN, now \in FnNows, now2 \in FnNows }

\* The caches one cycle is run on: empty; without a row for K1; with a row for
\* K1 that the user has opened; with a row for K1 never opened.
FnCaches ==
    { EmptyCache,
      (K3 :> OldRowK3),
      (K1 :> OldRowK1) @@ (K3 :> OldRowK3),
      (K1 :> [OldRowK1 EXCEPT !.last_opened_at = None]) }

\* One cycle on one of the caches, the remote returning a single PR (K1).
FnCycleInputs ==
    { [kind |-> "cycle",
       pr |-> MkPr(K1, "acme", "repo", ci, rv, Some("aaaaaaa"), age, checks, FALSE),
       c |-> c, now |-> T0] :
        ci \in CiStates, rv \in ReviewStates, age \in FnAges,
        checks \in FnCheckLists, c \in FnCaches }

\* The cold-start load of a cache: one row with any stored strings, or the two
\* rows of the older cache in either order.
\* The stored ci_checks_json: NULL, the JSON of one running check, a text that
\* is no JSON.
FnBlobs ==
    { None, ci_checks_to_db_json(<<MkCheck("Running", Some(T0 - 900))>>),
      Some(MalformedJson) }

FnLoadInputs ==
    { [kind |-> "load", c |-> (K1 :> r), order |-> <<K1>>, now |-> T0] : r \in FnOldRows }
    \cup { [kind |-> "load", c |-> (K1 :> OldRowK1) @@ (K3 :> OldRowK3),
            order |-> o, now |-> T0] : o \in {<<K1, K3>>, <<K3, K1>>} }
    \cup { [kind |-> "load",
            c |-> (K1 :> [OldRowK1 EXCEPT !.last_ci_state = Some("running"),
                                          !.ci_checks_json = b1])
                      @@ (K3 :> [OldRowK3 EXCEPT !.ci_checks_json = b3]),
            order |-> o, now |-> T0] :
              b1 \in FnBlobs, b3 \in FnBlobs, o \in {<<K1, K3>>, <<K3, K1>>} }

\* Merge blockers: every combination of the flags, a failing required check or
\* none, and approvals below, at and above a requirement or without one.
FnMergeBlockers ==
    { [has_conflicts |-> hc, required_approvals |-> ra, current_approvals |-> ca,
       required_checks |-> <<"ci">>, failing_required_checks |-> fc,
       is_behind_base |-> bb] :
        hc \in BOOLEAN, ra \in {None, Some(1), Some(2)}, ca \in 0..2,
        fc \in {<<>>, <<"ci">>}, bb \in BOOLEAN }

\* Three key presses on the list of the older cache: opening the filter, typing,
\* toggling the needs-you predicate, moving, Esc.
FnKeyCount == 3
FnKeySet == {Key("/"), Key("x"), Ctrl("n"), Key("Down"), Key("Esc")}
FnKeysInputs ==
    { [kind |-> "keys",
       prs |-> load_cached((K1 :> OldRowK1) @@ (K3 :> OldRowK3), T0, 30, NoScope, <<K1, K3>>),
       keys |-> ks] : ks \in [1..FnKeyCount -> FnKeySet] }

\* A session on one PR whose list of CI checks the remote changes: each step is
\* a key press (Tab, Up, Down) or an applied refresh result in which the PR has
\* zero to FnMaxChecks checks.
FnStepCount == 4
FnMaxChecks == 2
FnCheckList(n) == [i \in 1..n |-> MkCheck("Running", Some(T0 - 700))]
FnDetailsPrs(n) ==
    refresh(EmptyCache,
            <<MkPr(K2, "orbit", "repo", "Running", "Requested", None, 60,
                   FnCheckList(n), FALSE)>>,
            T0, 30, NoScope, "none", 0).out
FnDetailsSteps ==
    {[key |-> Key(c)] : c \in {"Tab", "Up", "Down"}}
        \cup {[checks |-> n] : n \in 0..FnMaxChecks}
FnDetailsInputs ==
    { [kind |-> "details",
       prs |-> FnDetailsPrs(FnMaxChecks),
       steps |-> ss] : ss \in [1..FnStepCount -> FnDetailsSteps] }

\* A PR (K1) that leaves the attention window and comes back: a first cycle
\* returns it with K2, a second returns K2 alone, and a last one returns both
\* again, K1 as it was.  Between the last two there is no cycle, or one that
\* fails: at the fetch, at the upsert of its first or second PR, or at the prune.
FnBetweenRuns ==
    {<<"skip", 0>>, <<"fetch", 0>>, <<"upsert", 1>>, <<"upsert", 2>>, <<"delete", 0>>}
FnReturnInputs ==
    { [kind |-> "return",
       pr |-> MkPr(K1, "acme", "repo", ci, rv, Some("aaaaaaa"), 60, <<>>, FALSE),
       other |-> MkPr(K2, "orbit", "repo", "None", "Approved", None, 60, <<>>, FALSE),
       between |-> b, now |-> T0] :
        ci \in CiStates, rv \in ReviewStates, b \in FnBetweenRuns }

\* The cold start on a cache of three rows under a window of one or thirty days
\* and each of the scopes: the row of K1 failing or not, requested or not,
\* updated just inside, at or just outside the one-day cutoff or without an
\* updated time, and last seen recently, over a day ago or never; the row of K2
\* in the other organisation; the row of K3 stored before the later columns.
FnColdRowsK1 ==
    { [OldRowK1 EXCEPT !.last_ci_state = ci, !.last_review_state = rv,
                       !.updated_at_unix = upd, !.last_seen_at = seen] :
        ci \in {Some("failure"), Some("success")},
        rv \in {Some("requested"), Some("none")},
        upd \in {None, Some(T0 - 86400 + 1), Some(T0 - 86400), Some(T0 - 86400 - 1)},
        seen \in {None, Some(T0 - 300), Some(T0 - 90000)} }
FnColdRowK2 ==
    DbRowOf(MkPr(K2, "orbit", "repo", "Failure", "None", None, 60, <<>>, FALSE),
            T0 - 300, None)
FnColdStartInputs ==
    { [kind |-> "coldstart",
       c |-> (K1 :> r) @@ (K2 :> FnColdRowK2) @@ (K3 :> OldRowK3),
       order |-> <<K1, K2, K3>>,
       days |-> d, scope |-> sc.scope, now |-> T0] :
        r \in FnColdRowsK1, d \in {1, 30}, sc \in Scopes }

\* One MergeBlockers value
FnClearInputs == { [kind |-> "clear", mb |-> mb] : mb \in FnMergeBlockers }

\* PRs with the two fields the category of a merge-ready PR is decided on.
FnReadyInputs ==
    { [kind |-> "ready",
       pr |-> [is_viewer_author |-> va, merge_blockers |-> mb]
                  @@ MkPr(K1, "acme", "repo", ci, rv, None, 60, <<>>, FALSE),
       is_new_ci_failure |-> FALSE, now |-> T0] :
        va \in BOOLEAN, mb \in {None} \cup {Some(b) : b \in FnMergeBlockers},
        ci \in CiStates, rv \in ReviewStates }

\* The rows upsert_pr is handed for K1: as refresh() builds them, with a
\* last_seen_at field equal to or older than the observed_at argument and no
\* last_opened_at, one older or one newer than the one OldRowK1 holds.
FnUpsertRows ==
    { DbRowOf(MkPr(K1, "acme", "repo", ci, "Requested", sha, 60, <<>>, FALSE), seen, lo) :
        ci \in {"Success", "Failure"}, sha \in FnShas, seen \in {T0, T0 - 50},
        lo \in {None, Some(T0 - 300), Some(T0 - 100)} }

FnUpsertInputs ==
    { [kind |-> "upsert", c |-> c, row |-> row, observed_at |-> T0] :
        c \in FnCaches, row \in FnUpsertRows }

\* The keep lists delete_prs_not_in is handed, on caches of zero to three rows.
FnKeepLists == SUBSET {K1, K2, K3}

FnPruneCaches ==
    FnCaches \cup { (K1 :> OldRowK1) @@ (K2 :> [OldRowK1 EXCEPT !.pr_key = K2])
                                     @@ (K3 :> OldRowK3) }

FnPruneInputs ==
    { [kind |-> "prune", c |-> c, keep |-> keep] :
        c \in FnPruneCaches, keep \in FnKeepLists }

\* The lists an applied result is diffed on: four PRs of two repositories, each
\* absent or in one of the categories, before and after.
FnAlertCount == 4
FnAlertKeys == <<"acme/repo#1", "acme/repo#2", "orbit/repo#3", "orbit/repo#4", "orbit/repo#5">>
FnAlertTitles == <<"One", "Two", "Three", "Four", "Five">>
FnAlertPr(i, cat) ==
    [pr |-> [pr_key |-> FnAlertKeys[i],
             owner |-> IF i <= 2 THEN "acme" ELSE "orbit",
             repo |-> "repo",
             title |-> FnAlertTitles[i]],
     category |-> cat,
     is_new_review_request |-> FALSE,
     is_new_ci_failure |-> FALSE]

FnAlertList(cats) ==
    LET F[i \in 0..FnAlertCount] ==
            IF i = 0 THEN <<>>
            ELSE IF cats[i] = "absent" THEN F[i - 1]
                 ELSE Append(F[i - 1], FnAlertPr(i, cats[i]))
    IN F[FnAlertCount]

FnAlertInputs ==
    { [kind |-> "apply", old_prs |-> FnAlertList(o), new_prs |-> FnAlertList(n),
       enabled |-> b] :
        o \in [1..FnAlertCount -> {"absent", "NeedsYou", "ReadyToMerge"}],
        n \in [1..FnAlertCount -> {"absent", "NeedsYou", "ReadyToMerge"}],
        b \in BOOLEAN }

\* Lists of FnListCount PRs of every category, draft or not, with the
\* needs-you predicate of the filter on or off.
FnListCount == 3
FnListPr(i, cat, draft) ==
    [pr |-> [pr_key |-> FnAlertKeys[i],
             owner |-> "acme",
             repo |-> "repo",
             title |-> FnAlertTitles[i],
             is_draft |-> draft],
     category |-> cat]

FnListInputs ==
    { [kind |-> "list",
       prs |-> [i \in 1..FnListCount |-> FnListPr(i, cats[i], drafts[i])],
       only_needs_you |-> b] :
        cats \in [1..FnListCount -> Range(ListCats)],
        drafts \in [1..FnListCount -> BOOLEAN],
        b \in BOOLEAN }

\* One cycle of either pipeline: the same prior cache, moment and list of PRs.
FnPipelineInputs ==
    { [kind |-> "pipeline", c |-> c, prs |-> l, now |-> T0] :
        c \in FnCaches, l \in TuiFetchLists }

FnInit ==
    /\ IdleTui
    /\ cfg = [days |-> 30, scope |-> NoScope]
    /\ cache = EmptyCache
    /\ clock = T0
    /\ cycle = NoCycle
    /\ fn_in \in FnNoveltyInputs \cup FnScoreInputs \cup FnCycleInputs \cup FnLoadInputs
                   \cup FnReadyInputs \cup FnUpsertInputs \cup FnPruneInputs
                   \cup FnAlertInputs \cup FnListInputs \cup FnPipelineInputs
                   \cup FnClearInputs \cup FnKeysInputs \cup FnDetailsInputs
                   \cup FnReturnInputs \cup FnColdStartInputs
    /\ fn_out = None

FnNovelty ==
    /\ fn_in.kind = "novelty"
    /\ fn_out = None
    /\ fn_out' = Some([is_new_review_request |-> is_new_review_request(fn_in.pr, fn_in.old),
                       is_new_ci_failure |-> is_new_ci_failure(fn_in.pr, fn_in.old)])
    /\ UNCHANGED <<tuiVars, cache, clock, cycle, fn_in>>

FnScore ==
    /\ fn_in.kind = "score"
    /\ fn_out = None
    /\ fn_out' = Some([score |-> score_pr(fn_in.pr, None, fn_in.now, fn_in.is_new_ci_failure),
                       score2 |-> score_pr(fn_in.pr, None, fn_in.now2, fn_in.is_new_ci_failure),
                       score_flipped |-> score_pr(fn_in.pr, None, fn_in.now,
                                                  ~fn_in.is_new_ci_failure),
                       running_for_secs |-> running_for_secs(fn_in.pr, fn_in.now)])
    /\ UNCHANGED <<tuiVars, cache, clock, cycle, fn_in>>

\* refresh() on the drawn cache, the fetch returning the drawn PR.
FnCycle ==
    /\ fn_in.kind = "cycle"
    /\ fn_out = None
    /\ fn_out' = Some(refresh(fn_in.c, <<fn_in.pr>>, fn_in.now, cfg.days, cfg.scope, "none", 0))
    /\ UNCHANGED <<tuiVars, cache, clock, cycle, fn_in>>

\* load_cached() on the drawn cache.
FnLoad ==
    /\ fn_in.kind = "load"
    /\ fn_out = None
    /\ fn_out' = Some([out |-> load_cached(fn_in.c, fn_in.now, cfg.days, cfg.scope,
                                          fn_in.order)])
    /\ UNCHANGED <<tuiVars, cache, clock, cycle, fn_in>>

\* The score and the category of the drawn PR.
FnReady ==
    /\ fn_in.kind = "ready"
    /\ fn_out = None
    /\ LET score == score_pr(fn_in.pr, None, fn_in.now, fn_in.is_new_ci_failure)
       IN fn_out' = Some([score |-> score,
                          category |-> category_with_ready_to_merge(fn_in.pr, score)])
    /\ UNCHANGED <<tuiVars, cache, clock, cycle, fn_in>>

\* upsert_pr() of the drawn row into the drawn cache, then load_all_prs().
FnUpsert ==
    /\ fn_in.kind = "upsert"
    /\ fn_out = None
    /\ fn_out' = Some([rows |-> load_all_prs(upsert_pr(fn_in.c, fn_in.row,
                                                       fn_in.observed_at))])
    /\ UNCHANGED <<tuiVars, cache, clock, cycle, fn_in>>

\* delete_prs_not_in() on the drawn cache, once and a second time on the result.
FnPrune ==
    /\ fn_in.kind = "prune"
    /\ fn_out = None
    /\ LET once == delete_prs_not_in(fn_in.c, fn_in.keep)
       IN fn_out' = Some([once |-> load_all_prs(once),
                          twice |-> load_all_prs(delete_prs_not_in(once, fn_in.keep))])
    /\ UNCHANGED <<tuiVars, cache, clock, cycle, fn_in>>

\* The Ok(Ok(new_prs)) arm on a state that holds the drawn list and is
\* refreshing, the repositories of that list seen.
FnApply ==
    /\ fn_in.kind = "apply"
    /\ fn_out = None
    /\ LET st == [AppState_new(fn_in.old_prs, T0) EXCEPT !.refreshing = TRUE]
           seen == {RepoOf(p) : p \in Range(fn_in.old_prs)}
       IN fn_out' = Some([alerts |-> RefreshAlerts(st.prs, fn_in.new_prs, seen,
                                                   fn_in.enabled, fn_in.enabled),
                          st |-> ApplyRefreshOk(st, fn_in.new_prs),
                          seen_repos |-> {RepoOf(p) : p \in Range(fn_in.new_prs)}])
    /\ UNCHANGED <<tuiVars, cache, clock, cycle, fn_in>>

\* The list frame of the drawn list under the drawn filter: the rows of every
\* section, the rows of the DRAFT section, and the visible rows.
FnList ==
    /\ fn_in.kind = "list"
    /\ fn_out = None
    /\ LET filtered == filtered_indices(fn_in.prs, <<>>, fn_in.only_needs_you, FALSE, FALSE)
       IN fn_out' = Some([filtered |-> filtered,
                          sections |-> [cat \in Range(ListCats) |->
                                           SectionRows(fn_in.prs, filtered, cat)],
                          drafts |-> DraftRows(fn_in.prs, filtered),
                          visible |-> build_list_lines(fn_in.prs, filtered)])
    /\ UNCHANGED <<tuiVars, cache, clock, cycle, fn_in>>

\* refresh() with the fetch returning the drawn list, and refresh_demo() with
\* generate_demo_prs returning it, each on the drawn cache at the drawn moment.
FnPipeline ==
    /\ fn_in.kind = "pipeline"
    /\ fn_out = None
    /\ fn_out' = Some([live |-> refresh(fn_in.c, fn_in.prs, fn_in.now, cfg.days,
                                         cfg.scope, "none", 0),
                       demo |-> refresh_demo(fn_in.c, fn_in.prs, fn_in.now, cfg.days,
                                             cfg.scope, "none", 0)])
    /\ UNCHANGED <<tuiVars, cache, clock, cycle, fn_in>>

\* The loop on the drawn list with no refresh: a frame, then a key, for each of
\* the drawn keys.  before[i] is the state the i-th key is read in, after[i] the
\* state it leaves, visible[i] the rows of the frame that follows.
FnKeys ==
    /\ fn_in.kind = "keys"
    /\ fn_out = None
    /\ LET S[i \in 0..FnKeyCount] ==
               IF i = 0 THEN AppState_new(fn_in.prs, T0)
               ELSE KeyState(FrameState(S[i - 1]), fn_in.keys[i],
                             FrameVisible(S[i - 1]), T0)
       IN fn_out' = Some([before |-> [i \in 1..FnKeyCount |-> FrameState(S[i - 1])],
                          after |-> [i \in 1..FnKeyCount |-> S[i]],
                          visible |-> [i \in 1..FnKeyCount |-> FrameVisible(S[i])]])
    /\ UNCHANGED <<tuiVars, cache, clock, cycle, fn_in>>

\* The loop on the drawn steps: a refresh result is applied where the loop
\* polls, a key is handled after the frame is drawn.  frames[i] is the state
\* the frame after the i-th step is drawn from.
FnDetails ==
    /\ fn_in.kind = "details"
    /\ fn_out = None
    /\ LET S[i \in 0..FnStepCount] ==
               IF i = 0 THEN AppState_new(fn_in.prs, T0)
               ELSE IF "key" \in DOMAIN fn_in.steps[i]
                    THEN KeyState(FrameState(S[i - 1]), fn_in.steps[i].key,
                                  FrameVisible(S[i - 1]), T0)
                    ELSE ApplyRefreshOk(S[i - 1], FnDetailsPrs(fn_in.steps[i].checks))
       IN fn_out' = Some([frames |-> [i \in 1..FnStepCount |-> FrameState(S[i])]])
    /\ UNCHANGED <<tuiVars, cache, clock, cycle, fn_in>>

\* The cycles of the drawn PR's absence and return, CycleSecs apart.  first,
\* away, between and back are what refresh() returns in each; before_back is
\* the cache the last cycle starts on.
FnReturn ==
    /\ fn_in.kind = "return"
    /\ fn_out = None
    /\ LET both == <<fn_in.pr, fn_in.other>>
           first == refresh(EmptyCache, both, fn_in.now, cfg.days, cfg.scope, "none", 0)
           away == refresh(first.cache, <<fn_in.other>>, fn_in.now + CycleSecs,
                           cfg.days, cfg.scope, "none", 0)
           between ==
               IF fn_in.between[1] = "skip" THEN away
               ELSE refresh(away.cache, both, fn_in.now + 2 * CycleSecs,
                            cfg.days, cfg.scope, fn_in.between[1], fn_in.between[2])
           back == refresh(between.cache, both, fn_in.now + 3 * CycleSecs,
                           cfg.days, cfg.scope, "none", 0)
       IN fn_out' = Some([first |-> first, away |-> away, between |-> between,
                          before_back |-> between.cache, back |-> back])
    /\ UNCHANGED <<tuiVars, cache, clock, cycle, fn_in>>

\* main() at a cold start: load_cached() reads the table through load_all_prs
\* and issues no other statement; cache is the table after the call.
FnColdStart ==
    /\ fn_in.kind = "coldstart"
    /\ fn_out = None
    /\ fn_out' = Some([cache |-> load_all_prs(fn_in.c),
                       out |-> load_cached(fn_in.c, fn_in.now, fn_in.days, fn_in.scope,
                                           fn_in.order)])
    /\ UNCHANGED <<tuiVars, cache, clock, cycle, fn_in>>

\* is_clear() of the drawn MergeBlockers.
FnClear ==
    /\ fn_in.kind = "clear"
    /\ fn_out = None
    /\ fn_out' = Some([is_clear |-> MergeBlockers_is_clear(fn_in.mb)])
    /\ UNCHANGED <<tuiVars, cache, clock, cycle, fn_in>>

FnNext ==
    \/ FnNovelty \/ FnScore \/ FnCycle \/ FnLoad \/ FnReady \/ FnUpsert \/ FnPrune
    \/ FnApply \/ FnList \/ FnPipeline \/ FnClear \/ FnKeys \/ FnDetails \/ FnReturn
    \/ FnColdStart

SpecFn == FnInit /\ [][FnNext]_vars

----------------------------------------------------------------------------
(* Claims about the main loop and its workers (Spec) *)

KeyR == Key("r")

\* The step reads the key 'r'.
ReadsR == pc = "event" /\ last_key' = Some(KeyR)

\* The workers the step spawns.
Spawned == (DOMAIN workers') \ (DOMAIN workers)

\* The step receives a failure: an Err on the channel, or a channel whose
\* sender is gone.
ReceivesFailure ==
    /\ pc = "poll"
    /\ pc' = "draw"
    /\ state.refreshing
    /\ IsSome(refresh_rx)
    /\ LET w == workers[Unwrap(refresh_rx)]
       IN \/ w.st = "dead"
          \/ w.st = "sent" /\ ~Unwrap(w.msg).ok

\* C1: at most one refresh worker is outstanding at any time, and it is the
\* one whose channel the loop holds while refreshing is set; whichever trigger
\* spawns a worker (startup, 'r', List or Details auto-refresh) does so in a
\* step that starts with refreshing false and no worker outstanding, and that
\* step sets refreshing to true.
C1_AtMostOneWorker ==
    /\ [](/\ Cardinality(DOMAIN workers) <= 1
          /\ \A id \in DOMAIN workers : state.refreshing /\ refresh_rx = Some(id))
    /\ [][Spawned /= {} =>
             /\ ~state.refreshing
             /\ DOMAIN workers = {}
             /\ state'.refreshing
             /\ Cardinality(DOMAIN workers') = 1]_vars

\* A worker spawned by the Details auto-refresh, after an earlier refresh has
\* completed, is the only one outstanding.
C1_Witness ==
    /\ state.refreshing
    /\ last_result = "ok"
    /\ Cardinality(DOMAIN workers) = 1
    /\ state.mode = "Details"
    /\ clock > T0
    /\ state.last_refresh_started = Some(clock)
    /\ state.details_last_auto_refresh = Some(clock)

\* C2: a step that reads 'r' while a refresh is in flight leaves refreshing,
\* the animation phase, the last-refresh-start time, the result channel and
\* the workers (none spawned, none cancelled) unchanged.
C2_ManualRefreshInFlightIsNoOp ==
    [][(ReadsR /\ state.refreshing) =>
          /\ state'.refreshing = state.refreshing
          /\ state'.shimmer_phase = state.shimmer_phase
          /\ state'.last_refresh_started = state.last_refresh_started
          /\ refresh_rx' = refresh_rx
          /\ workers' = workers]_vars

\* 'r' has been read by the main match while a refresh was in flight (its
\* animation already under way), and the worker is still outstanding.
C2_Witness ==
    /\ last_key = Some(KeyR)
    /\ ~state.help_open
    /\ ~state.filter_editing
    /\ state.refreshing
    /\ state.shimmer_phase > 0
    /\ DOMAIN workers /= {}

\* C3 as stated: every step that reads 'r' while no refresh is in flight sets
\* refreshing and spawns exactly one worker.
C3_AnyRHonoured ==
    [][(ReadsR /\ ~state.refreshing) =>
          /\ state'.refreshing
          /\ Cardinality(Spawned) = 1]_vars

\* C3: a step that reads 'r' while no refresh is in flight, the help overlay is
\* closed and the filter is not being edited sets refreshing, restarts the
\* animation and the last-refresh-start time and spawns exactly one worker,
\* whatever the list and details timers say.
C3_ManualRefreshHonoured ==
    [][(ReadsR /\ ~state.refreshing /\ ~state.help_open /\ ~state.filter_editing) =>
          /\ state'.refreshing
          /\ state'.shimmer_phase = 0
          /\ state'.last_refresh_started = Some(clock)
          /\ Cardinality(Spawned) = 1
          /\ refresh_rx' = Some(CHOOSE id \in Spawned : TRUE)]_vars

\* 'r' has started a refresh in the second in which the startup refresh was
\* started and completed, in Details with its timer not yet due.
C3_Witness ==
    /\ last_key = Some(KeyR)
    /\ state.refreshing
    /\ state.shimmer_phase = 0
    /\ Cardinality(DOMAIN workers) = 1
    /\ last_result /= "none"
    /\ clock = T0
    /\ state.mode = "Details"
    /\ state.details_last_auto_refresh = Some(T0)

\* C4: the step that receives a refresh's failure clears refreshing and drops
\* the channel; the PR list, the selection, the view mode, the filters and the
\* seen repositories are unchanged, no bell or notification is dispatched, and
\* the loop goes on to draw.
C4_FailedRefreshKeepsList ==
    [][ReceivesFailure =>
          /\ ~state'.refreshing
          /\ refresh_rx' = None
          /\ state' = [state EXCEPT !.refreshing = FALSE,
                                    !.shimmer_phase = state'.shimmer_phase]
          /\ seen_repos' = seen_repos
          /\ alerts' = {}
          /\ pc' /= "exited"]_vars

\* After a failed refresh the cached list is still shown and a later trigger
\* has started a new refresh.
C4_Witness ==
    /\ last_result = "err"
    /\ state.prs /= <<>>
    /\ state.refreshing
    /\ Running(workers) /= {}

----------------------------------------------------------------------------
(* Claims about the refresh cycle (SpecRefresh) *)

OutKeys(out) == {out[i].pr.pr_key : i \in 1..Len(out)}

\* The filters of a cycle, from their description: updated at or after the
\* cutoff, of a listed organisation and a listed repository when any is listed,
\* and of no excluded repository.
InAttentionWindow(p, now) ==
    /\ p.updated_at_unix >= now - cfg.days * 86400
    /\ cfg.scope.orgs = {} \/ p.owner \in cfg.scope.orgs
    /\ cfg.scope.include_repos = {} \/ <<p.owner, p.repo>> \in cfg.scope.include_repos
    /\ <<p.owner, p.repo>> \notin cfg.scope.exclude_repos

\* C5: after a successful cycle the pr_keys stored in the cache are exactly the
\* pr_keys of the PRs the cycle returned, which are the fetched PRs that pass
\* the cutoff and the scope filters, whatever the cache held before.
C5_CacheKeysAreReturnedKeys ==
    cycle.outcome = "ok" =>
        /\ DOMAIN cache = OutKeys(cycle.out)
        /\ DOMAIN cache = {cycle.fetched[i].pr_key :
                              i \in {j \in 1..Len(cycle.fetched) :
                                        InAttentionWindow(cycle.fetched[j], cycle.now)}}

\* C5's case: the cache of the earlier run held K1 (opened by the user) and K3;
\* a cycle returned K1 and K2, and K3's row is gone.
C5_Witness ==
        /\ cycle.outcome = "ok"
        /\ DOMAIN cache = {K1, K2}
        /\ cache[K1].last_opened_at = Some(T0 - 200)

\* C6: a cycle whose fetch fails returns an error and leaves the cache as it
\* was: no row inserted, updated or deleted.
C6_FetchFailureLeavesCache ==
    [][cycle'.fault = "fetch" =>
          /\ cycle'.outcome = "err"
          /\ cycle'.out = <<>>
          /\ cache' = cache]_vars

\* C6's case: a fetch has failed on a cache that holds rows.
C6_Witness ==
       cycle.fault = "fetch" /\ DOMAIN cache /= {}

\* The score of a failing PR that is not new, from its description: 50 when a
\* review is requested, and the -30 term (the other terms need another CI
\* state or an approval).
StaleFailureScore(p) == (IF p.review_state = "Requested" THEN 50 ELSE 0) - 30

SamePrEvent(p, q) ==
    /\ p.pr_key = q.pr_key
    /\ p.ci_state = q.ci_state
    /\ p.last_commit_sha = q.last_commit_sha
    /\ p.review_state = q.review_state

\* C9: when two consecutive successful cycles return a PR with the same
\* pr_key, ci_state, head commit and review_state, the second reports neither
\* a new CI failure nor a new review request for it, and scores a failing PR
\* with the -30 term.
C9_NoRetriggerOnNextCycle ==
    [][(cycle.outcome = "ok" /\ cycle'.outcome = "ok") =>
          \A i \in 1..Len(cycle'.out) : \A j \in 1..Len(cycle.out) :
              SamePrEvent(cycle'.out[i].pr, cycle.out[j].pr) =>
                  /\ ~cycle'.out[i].is_new_ci_failure
                  /\ ~cycle'.out[i].is_new_review_request
                  /\ cycle'.out[i].pr.ci_state = "Failure" =>
                         cycle'.out[i].score = StaleFailureScore(cycle'.out[i].pr)]_vars

\* C9's case: K1 fails on commit b, which only a cycle of this run can have
\* stored, and is reported as not new and scored -30.
C9_Witness ==
        /\ cycle.outcome = "ok"
        /\ \E i \in 1..Len(cycle.out) :
              /\ cycle.out[i].pr.pr_key = K1
              /\ cycle.out[i].pr.last_commit_sha = Some("bbbbbbb")
              /\ ~cycle.out[i].is_new_ci_failure
              /\ cycle.out[i].score = -30

----------------------------------------------------------------------------
(* Claims about the pure functions (SpecFn) *)

NoveltyDone == IsSome(fn_out) /\ fn_in.kind = "novelty"
ScoreDone == IsSome(fn_out) /\ fn_in.kind = "score"

\* C7: is_new_ci_failure is true exactly when the PR's ci_state is Failure and
\* there is no prior row, or the prior row's CI state is not failure, or the
\* prior row's head commit differs from the PR's; nothing else is read.
C7_NewCiFailure ==
    NoveltyDone =>
        ( Unwrap(fn_out).is_new_ci_failure
          <=> /\ fn_in.pr.ci_state = "Failure"
              /\ \/ fn_in.old = None
                 \/ parse_ci_state(Unwrap(fn_in.old).last_ci_state) /= "Failure"
                 \/ Unwrap(fn_in.old).last_commit_sha /= fn_in.pr.last_commit_sha )

\* C7's case: the prior row is failing too, on another commit, and the failure
\* is new.
C7_Witness ==
        /\ NoveltyDone
        /\ fn_in.old /= None
        /\ Unwrap(fn_in.old).last_ci_state = Some("failure")
        /\ Unwrap(fn_in.old).last_commit_sha = Some("aaaaaaa")
        /\ fn_in.pr.last_commit_sha = Some("bbbbbbb")
        /\ Unwrap(fn_out).is_new_ci_failure

\* C8: is_new_review_request is true exactly when the PR's review_state is
\* Requested and there is no prior row or the prior row's review state is not
\* requested.
C8_NewReviewRequest ==
    NoveltyDone =>
        ( Unwrap(fn_out).is_new_review_request
          <=> /\ fn_in.pr.review_state = "Requested"
              /\ \/ fn_in.old = None
                 \/ parse_review_state(Unwrap(fn_in.old).last_review_state) /= "Requested" )

\* C8's case: the prior row was requested already, and the request is not new.
C8_Witness ==
        /\ NoveltyDone
        /\ fn_in.pr.review_state = "Requested"
        /\ fn_in.old /= None
        /\ Unwrap(fn_in.old).last_review_state = Some("requested")
        /\ ~Unwrap(fn_out).is_new_review_request

\* The running duration, from its description: the time since the oldest
\* started_at among the running checks that carry one, else since updated_at.
RunningStarts(pr) ==
    {Unwrap(pr.ci_checks[i].started_at_unix) :
        i \in {j \in 1..Len(pr.ci_checks) :
                  /\ pr.ci_checks[j].state = "Running"
                  /\ pr.ci_checks[j].started_at_unix /= None}}

RunningDuration(pr, now) ==
    IF RunningStarts(pr) /= {}
    THEN now - (CHOOSE t \in RunningStarts(pr) : \A u \in RunningStarts(pr) : t <= u)
    ELSE now - pr.updated_at_unix

\* The five terms, from their description.
ReviewTerm(pr) == IF pr.review_state = "Requested" THEN 50 ELSE 0
FailureTerm(pr, new) ==
    IF pr.ci_state = "Failure" THEN (IF new THEN 40 ELSE -30) ELSE 0
RunningTerm(pr, now) ==
    IF pr.ci_state = "Running" /\ RunningDuration(pr, now) > 600 THEN 20 ELSE 0
ApprovedTerm(pr, now) ==
    IF pr.review_state = "Approved" /\ now - pr.updated_at_unix > 86400 THEN 15 ELSE 0
WaitingTerm(pr) ==
    IF pr.review_state = "None" /\ pr.ci_state = "Success" THEN -20 ELSE 0

AgeTerms(pr, now) == RunningTerm(pr, now) + ApprovedTerm(pr, now)

\* C10: score is the sum of the five terms, and two scores of one PR and flag
\* at two times differ by the difference of their two age terms only.
C10_ScoreIsSumOfTerms ==
    ScoreDone =>
        LET pr == fn_in.pr
            new == fn_in.is_new_ci_failure
        IN /\ Unwrap(fn_out).score =
                  ReviewTerm(pr) + FailureTerm(pr, new) + RunningTerm(pr, fn_in.now)
                      + ApprovedTerm(pr, fn_in.now) + WaitingTerm(pr)
           /\ Unwrap(fn_out).score2 - Unwrap(fn_out).score =
                  AgeTerms(pr, fn_in.now2) - AgeTerms(pr, fn_in.now)

\* C10's case: a requested PR whose check has run 600 s at one time and 601 s
\* at the other scores 50 and 70.
C10_Witness ==
        /\ ScoreDone
        /\ Unwrap(fn_out).score = 50
        /\ Unwrap(fn_out).score2 = 70

\* The four terms other than the failure term.
OtherTerms(pr, now) ==
    ReviewTerm(pr) + RunningTerm(pr, now) + ApprovedTerm(pr, now) + WaitingTerm(pr)

\* C11: for a failing PR the score is the other terms plus 40 when the failure
\* is new and plus -30 when it is not (so, with review_state None, exactly 40
\* and exactly -30); for a PR that is not failing the flag changes nothing and
\* the score is the other terms alone.
C11_OneFailureTerm ==
    ScoreDone =>
        LET pr == fn_in.pr
            new == fn_in.is_new_ci_failure
            others == OtherTerms(pr, fn_in.now)
            out == Unwrap(fn_out)
        IN IF pr.ci_state = "Failure"
           THEN /\ out.score - others = (IF new THEN 40 ELSE -30)
                /\ out.score_flipped - others = (IF new THEN -30 ELSE 40)
                /\ pr.review_state = "None" => out.score = (IF new THEN 40 ELSE -30)
           ELSE /\ out.score = others
                /\ out.score_flipped = others

\* C11's case: a failing PR nobody reviews scores 40 with the flag and -30
\* without it.
C11_Witness ==
    /\ ScoreDone
    /\ fn_in.pr.ci_state = "Failure"
    /\ fn_in.pr.review_state = "None"
    /\ fn_in.is_new_ci_failure
    /\ Unwrap(fn_out).score = 40
    /\ Unwrap(fn_out).score_flipped = -30

\* A Running PR nobody reviews, updated a minute ago, with one running check
\* started `mins` minutes before T0.
RunningSince(pr, mins) ==
    /\ pr.ci_state = "Running"
    /\ pr.review_state = "None"
    /\ pr.updated_at_unix = T0 - 60
    /\ Len(pr.ci_checks) = 1
    /\ pr.ci_checks[1].state = "Running"
    /\ pr.ci_checks[1].started_at_unix = <<T0 - mins * 60>>

\* C12: the running duration is the time since the oldest started_at among
\* the running checks that carry one, and the time since updated_at when none
\* does; at T0 the PR whose check started 11 minutes ago scores 20 and the one
\* whose check started 4 minutes ago scores 0.
C12_RunningDuration ==
    ScoreDone =>
        LET pr == fn_in.pr
            out == Unwrap(fn_out)
        IN /\ out.running_for_secs = RunningDuration(pr, fn_in.now)
           /\ (RunningSince(pr, 11) /\ fn_in.now = T0) => out.score = 20
           /\ (RunningSince(pr, 4) /\ fn_in.now = T0) => out.score = 0

\* C12's case: the check started 11 minutes ago, the PR was updated a minute
\* ago, and the duration is the 11 minutes.
C12_Witness ==
    /\ ScoreDone
    /\ RunningSince(fn_in.pr, 11)
    /\ fn_in.now = T0
    /\ Unwrap(fn_out).running_for_secs = 660
    /\ Unwrap(fn_out).score = 20

CycleDone == IsSome(fn_out) /\ fn_in.kind = "cycle"
LoadDone == IsSome(fn_out) /\ fn_in.kind = "load"

\* C13: a cycle that fetches a PR with review_state Requested and finds no row
\* for it in the cache returns it with a score of at least 50 and the category
\* NeedsYou, whatever its CI state, checks and age.
C13_RequestedIsNeedsYou ==
    (CycleDone /\ fn_in.pr.review_state = "Requested" /\ K1 \notin DOMAIN fn_in.c) =>
        LET out == Unwrap(fn_out).out
        IN /\ Len(out) = 1
           /\ out[1].pr = fn_in.pr
           /\ out[1].score >= 50
           /\ out[1].category = "NeedsYou"

\* C13's case: a requested PR that is failing, not seen before, in a cache that
\* holds another PR's row.
C13_Witness ==
    /\ CycleDone
    /\ fn_in.pr.review_state = "Requested"
    /\ fn_in.pr.ci_state = "Failure"
    /\ DOMAIN fn_in.c = {K3}
    /\ Unwrap(fn_out).out[1].score = 90
    /\ Unwrap(fn_out).out[1].category = "NeedsYou"

\* C14: every UiPr a cycle or the cold-start load returns has one of the four
\* categories, and unless that is ReadyToMerge it is NeedsYou exactly when
\* score >= 40, Waiting exactly when 0 <= score < 40 and Stale exactly when
\* score < 0.
C14_CategoryFromScore ==
    (CycleDone \/ LoadDone) =>
        LET out == Unwrap(fn_out).out
        IN \A i \in 1..Len(out) :
              /\ out[i].category \in {"NeedsYou", "Waiting", "Stale", "ReadyToMerge"}
              /\ out[i].category /= "ReadyToMerge" =>
                    /\ out[i].category = "NeedsYou" <=> out[i].score >= 40
                    /\ out[i].category = "Waiting" <=> (0 <= out[i].score /\ out[i].score < 40)
                    /\ out[i].category = "Stale" <=> out[i].score < 0

\* C14's case: a cycle returns a PR that scores exactly 40, and it is NeedsYou.
C14_Witness ==
    /\ CycleDone
    /\ Len(Unwrap(fn_out).out) = 1
    /\ Unwrap(fn_out).out[1].score = 40
    /\ Unwrap(fn_out).out[1].category = "NeedsYou"

ReadyDone == IsSome(fn_out) /\ fn_in.kind = "ready"

\* Merge blockers are clear, from the description: no conflicts, not behind the
\* base, no failing required check, approvals at least the requirement if one
\* is known.
BlockersClear(mb) ==
    /\ mb.has_conflicts = FALSE
    /\ mb.is_behind_base = FALSE
    /\ Len(mb.failing_required_checks) = 0
    /\ mb.required_approvals = <<>> \/ mb.current_approvals >= mb.required_approvals[1]

UpsertDone == IsSome(fn_out) /\ fn_in.kind = "upsert"

\* The last_opened_at the drawn cache holds for the key of the drawn row.
PriorOpenedAt ==
    IF fn_in.row.pr_key \in DOMAIN fn_in.c
    THEN fn_in.c[fn_in.row.pr_key].last_opened_at
    ELSE None

\* The caller supplies a last_opened_at newer than the one the cache holds.
SuppliesNewer ==
    /\ IsSome(fn_in.row.last_opened_at)
    /\ (IsSome(PriorOpenedAt) => Unwrap(fn_in.row.last_opened_at) > Unwrap(PriorOpenedAt))

\* The row load_all_prs returns for the upserted key equals the input in every
\* field but last_opened_at, last_seen_at being the observed_at argument.
UpsertStoresOtherFields ==
    LET k == fn_in.row.pr_key
        got == Unwrap(fn_out).rows
    IN /\ k \in DOMAIN got
       /\ [got[k] EXCEPT !.last_opened_at = None]
            = [fn_in.row EXCEPT !.last_opened_at = None,
                                !.last_seen_at = Some(fn_in.observed_at)]

\* C16: after upsert(row, observed_at), load_all returns for that pr_key a row
\* equal to the input in every field except last_opened_at; last_opened_at
\* keeps the value the cache held for the key before the upsert, unless the
\* caller supplied a newer value, which is then the value stored.
C16_RoundTripStoresNewerOpenedAt ==
    UpsertDone =>
        /\ UpsertStoresOtherFields
        /\ Unwrap(fn_out).rows[fn_in.row.pr_key].last_opened_at
             = IF SuppliesNewer THEN fn_in.row.last_opened_at ELSE PriorOpenedAt

PruneDone == IsSome(fn_out) /\ fn_in.kind = "prune"

\* C17: prune_to(keep) deletes exactly the rows whose pr_key is not in keep
\* and leaves every remaining row unchanged; with keep empty the table becomes
\* empty; running it twice with the same keep leaves the same contents as
\* running it once.
C17_PruneExactAndIdempotent ==
    PruneDone =>
        LET once == Unwrap(fn_out).once
            twice == Unwrap(fn_out).twice
        IN /\ DOMAIN once = (DOMAIN fn_in.c) \cap fn_in.keep
           /\ \A k \in DOMAIN once : once[k] = fn_in.c[k]
           /\ (fn_in.keep = {} => once = EmptyCache)
           /\ twice = once

\* A prune that deletes one row and keeps another, for a key list that also
\* names a key the cache does not hold.
C17_Witness ==
    /\ PruneDone
    /\ fn_in.keep = {K1, K2}
    /\ DOMAIN fn_in.c = {K1, K3}
    /\ DOMAIN Unwrap(fn_out).once = {K1}
    /\ Unwrap(fn_out).once[K1] = OldRowK1

----------------------------------------------------------------------------
(* Claims about last_opened_at and the order of the list *)

\* The last_opened_at cache c holds for key k.
OpenedAtIn(c, k) == IF k \in DOMAIN c THEN c[k].last_opened_at ELSE None

\* C18: a refresh cycle never creates or changes last_opened_at: for every PR
\* a cycle returns, the last_opened_at of its cache row and of its UiPr both
\* equal the value the cache held for that key before the cycle, and are absent
\* when the PR had no prior row or no prior value.
C18_CycleKeepsOpenedAt ==
    [][cycle'.outcome = "ok" =>
          \A i \in 1..Len(cycle'.out) :
              LET k == cycle'.out[i].pr.pr_key
              IN /\ k \in DOMAIN cache'
                 /\ cache'[k].last_opened_at = OpenedAtIn(cache, k)
                 /\ cycle'.out[i].last_opened_at = OpenedAtIn(cache, k)]_vars

KeyEnter == Key("Enter")

\* The PR the step opens, if any: the step reads Enter with the help overlay
\* closed, in List mode on the selected PR, or in Details mode (the filter not
\* being edited) on the details PR.
OpenedPr ==
    IF pc = "event" /\ last_key' = Some(KeyEnter) /\ ~state.help_open
    THEN IF state.mode = "List"
         THEN SelectedPr(state, visible)
         ELSE IF state.filter_editing THEN None
              ELSE FindPr(state.prs, state.details_pr_key)
    ELSE None

\* C19: Open stamps the opened PR's last_opened_at with the current time in
\* the in-memory list and writes the same value through to that PR's cache row,
\* when the cache still holds one.
C19_OpenStampsOpenedAt ==
    [][IsSome(OpenedPr) =>
          LET k == Unwrap(OpenedPr).pr.pr_key
              after == FindPr(state'.prs, Some(k))
          IN /\ IsSome(after)
             /\ Unwrap(after).last_opened_at = Some(clock)
             /\ k \in DOMAIN cache =>
                    /\ k \in DOMAIN cache'
                    /\ cache'[k].last_opened_at = Some(clock)]_vars

\* PR a is not behind PR b in the order of the list: a higher score, or the
\* same score and an update at least as recent.
NotBehind(a, b) ==
    \/ a.score > b.score
    \/ a.score = b.score /\ a.pr.updated_at_unix >= b.pr.updated_at_unix

\* C20: the PR list held by the state machine is always sorted by score
\* descending with ties broken by updated_at descending, from the cold-start
\* list on and after every applied refresh result, live or demo.
C20_ListSorted ==
    \A i \in 1..(Len(state.prs) - 1) : NotBehind(state.prs[i], state.prs[i + 1])

\* A live refresh result has been applied whose two PRs were fetched in the
\* other order: K2 (score 70) is listed before K1.
C20_Witness ==
    /\ ~cfg.demo
    /\ last_result = "ok"
    /\ Len(state.prs) = 2
    /\ state.prs[1].pr.pr_key = K2
    /\ state.prs[2].pr.pr_key = K1
    /\ state.prs[1].score > state.prs[2].score

----------------------------------------------------------------------------
(* Claims about a worker that does not return, alerts and the views (Spec) *)

\* The worker whose channel the loop holds has not returned.
Hung ==
    /\ IsSome(refresh_rx)
    /\ Unwrap(refresh_rx) \in DOMAIN workers
    /\ workers[Unwrap(refresh_rx)].st = "running"

\* The same worker has still not returned after the step.
StillHung ==
    /\ Hung
    /\ Unwrap(refresh_rx) \in DOMAIN workers'
    /\ workers'[Unwrap(refresh_rx)].st = "running"

\* One step of the main loop other than the handling of a key.
LoopStep ==
    \/ StartupRefresh
    \/ AutoRefreshList
    \/ AutoRefreshDetails
    \/ PollRefresh
    \/ Draw
    \/ NoKey

\* The key presses the model still has room for.
KeyInBounds(k) ==
    /\ nkeys < MaxKeys
    /\ (state.filter_editing /\ ~state.help_open /\ IsChar(k) /\ ~k.ctrl)
           => Len(state.filter_edit) < MaxFilterLen

\* C21: while the refresh worker does not return, refreshing stays true and no
\* step starts another worker or replaces the channel; the main loop is not
\* blocked: each of its phases can run, and at the event phase every key is
\* handled.
C21_HungWorkerBlocksOnlyRefresh ==
    /\ [][StillHung =>
             /\ state.refreshing
             /\ state'.refreshing
             /\ Spawned = {}
             /\ refresh_rx' = refresh_rx
             /\ workers' = workers]_vars
    /\ []((Hung /\ pc /= "exited") =>
             /\ ENABLED LoopStep
             /\ pc = "event" =>
                    \A k \in Keys : KeyInBounds(k) => ENABLED HandleKey(k))

\* With the first worker still out at the end of the model's time, two keys
\* have been handled (the second one 'r', in Details with both timers due) and
\* no other worker exists.
C21_Witness ==
    /\ Hung
    /\ DOMAIN workers = {1}
    /\ last_result = "none"
    /\ state.refreshing
    /\ clock = T0 + MaxTime
    /\ nkeys = MaxKeys
    /\ last_key = Some(KeyR)
    /\ state.mode = "Details"
    /\ IsSome(state.details_last_auto_refresh)
    /\ clock - Unwrap(state.details_last_auto_refresh) >= DETAILS_REFRESH_SECS
    /\ clock - Unwrap(state.last_refresh_started) >= LIST_REFRESH_SECS

ApplyDone == IsSome(fn_out) /\ fn_in.kind = "apply"

\* The PRs of the new list that are in category cat and were not in it in the
\* list held before, in the order of the new list.
EnteredCategory(cat) ==
    LET entered(p) ==
            /\ p.category = cat
            /\ ~\E q \in Range(fn_in.old_prs) :
                    q.pr.pr_key = p.pr.pr_key /\ q.category = cat
    IN SelectSeq(fn_in.new_prs, entered)

AlertsOfKind(kind) == {a \in Unwrap(fn_out).alerts : a.kind = kind}

\* The needs-you alert counts the PRs that entered NeedsYou, and there is none
\* when no PR entered it.
NeedsYouAlertCounts ==
    AlertsOfKind("needs_you") =
        IF EnteredCategory("NeedsYou") = <<>>
        THEN {}
        ELSE {Alert("needs_you", "", NoRepo, Len(EnteredCategory("NeedsYou")))}

\* The ready-to-merge alerts are those of the PRs of prs.
ReadyAlertsAreFor(prs) ==
    AlertsOfKind("ready_to_merge") =
        {Alert("ready_to_merge", p.pr.title, RepoOf(p), 0) : p \in Range(prs)}

\* The list is replaced by the result and refreshing is cleared.
ListReplaced ==
    /\ Unwrap(fn_out).st.prs = fn_in.new_prs
    /\ ~Unwrap(fn_out).st.refreshing

\* C22 as stated: with notifications enabled, the ready-to-merge alert is
\* raised for every PR that is ReadyToMerge now and was not before.
C22_EveryReadyPrAlerted ==
    (ApplyDone /\ fn_in.enabled) =>
        /\ NeedsYouAlertCounts
        /\ ReadyAlertsAreFor(EnteredCategory("ReadyToMerge"))
        /\ ListReplaced

\* C22: with notifications enabled, the needs-you alert counts exactly the PRs
\* that are NeedsYou in the new list and were not in the list held before; a
\* ready-to-merge alert is raised for the first three PRs of the new list that
\* are ReadyToMerge and were not before, and for no other PR; the whole list
\* is replaced by the result and refreshing is cleared.
C22_EnteredCategoryAlerts ==
    (ApplyDone /\ fn_in.enabled) =>
        /\ NeedsYouAlertCounts
        /\ ReadyAlertsAreFor(Take(EnteredCategory("ReadyToMerge"), 3))
        /\ ListReplaced

\* Two PRs stay in their categories, one enters NeedsYou and one becomes
\* ReadyToMerge: one alert for each of the two that entered.
C22_Witness ==
    /\ ApplyDone
    /\ fn_in.enabled
    /\ Len(fn_in.old_prs) = 3
    /\ Len(fn_in.new_prs) = 4
    /\ Len(EnteredCategory("NeedsYou")) = 1
    /\ Len(EnteredCategory("ReadyToMerge")) = 1
    /\ Cardinality({p \in Range(fn_in.new_prs) : p.category = "NeedsYou"}) = 2
    /\ Cardinality({p \in Range(fn_in.new_prs) : p.category = "ReadyToMerge"}) = 2
    /\ Cardinality(AlertsOfKind("ready_to_merge")) = 1
    /\ AlertsOfKind("needs_you") = {Alert("needs_you", "", NoRepo, 1)}

\* C23: a new-repository notification is dispatched only for a repository
\* that has appeared neither in the initial list nor in any refresh result
\* applied earlier in the session.
C23_NewRepoOnlyOnce ==
    [][\A a \in alerts' : a.kind = "new_repo" => a.repo \notin shown_repos]_vars

\* The step takes the view from List to Details.
EntersDetails == state.mode = "List" /\ state'.mode = "Details"

\* C24: the step that enters Details sets the details key to the key of the
\* PR on the selected visible row and the CI-check cursor to 0; no step that
\* stays in Details changes the key, whatever it does to the list; and when
\* Details has been drawn, the key names a PR of the list.
C24_DetailsFollowsKey ==
    /\ [][EntersDetails =>
             /\ state.selected_idx < Len(visible)
             /\ state'.details_pr_key =
                    Some(state.prs[visible[state.selected_idx + 1]].pr.pr_key)
             /\ state'.details_ci_selected = 0]_vars
    /\ [][(state.mode = "Details" /\ state'.mode = "Details") =>
             state'.details_pr_key = state.details_pr_key]_vars
    /\ []((state.mode = "Details" /\ pc = "event") =>
             /\ IsSome(state.details_pr_key)
             /\ \E i \in 1..Len(state.prs) :
                    state.prs[i].pr.pr_key = Unwrap(state.details_pr_key))

\* Details was entered on K1 and a refresh has just been applied that brought
\* a PR of a repository not in the list before: K1 has moved to the second
\* place and is still the details PR.
C24_Witness ==
    /\ state.mode = "Details"
    /\ state.details_pr_key = Some(K1)
    /\ Alert("new_repo", "", <<"orbit", "repo">>, 0) \in alerts
    /\ Len(state.prs) = 2
    /\ state.prs[2].pr.pr_key = K1

\* C25: whenever the view mode is List the details auto-refresh timer is
\* unset, and every step from Details to List leaves it unset.
C25_ListHasNoDetailsTimer ==
    /\ [](state.mode = "List" => state.details_last_auto_refresh = None)
    /\ [][(state.mode = "Details" /\ state'.mode = "List") =>
             state'.details_last_auto_refresh = None]_vars

\* The index i points at one of n visible rows, or is 0 when there is none.
SelectionInBounds(i, n) == IF n = 0 THEN i = 0 ELSE i < n

\* C26: once a List frame is built and the loop waits for a key, both the index
\* the frame drew its cursor with and the index Open and ToggleDetails resolve
\* are below the number of visible PRs, or 0 when none is visible.
C26_SelectionNeverDangling ==
    (pc = "event" /\ state.mode = "List") =>
        /\ IsSome(cursor)
        /\ SelectionInBounds(Unwrap(cursor), Len(visible))
        /\ SelectionInBounds(state.selected_idx, Len(visible))

----------------------------------------------------------------------------
(* Claims about the automatic refreshes (Spec) *)

\* The step in which the loop decides on the automatic refresh of the list view.
ListDecision == pc = "auto_list" /\ pc' = "auto_details"

\* Seconds since the latest refresh was started.
SinceLastStart == clock - Unwrap(state.last_refresh_started)

\* The list interval is the one the config file sets, 180 s when it sets none.
ListIntervalIsConfigured ==
    ListInterval = IF IsSome(cfg.config.refresh_interval_list_secs)
                   THEN Unwrap(cfg.config.refresh_interval_list_secs)
                   ELSE LIST_REFRESH_SECS

DetailsDecision == pc = "auto_details" /\ pc' = "poll"

\* The details timer has never run or has run for the details interval.
DetailsTimerDue ==
    IsSome(state.details_last_auto_refresh) =>
        clock - Unwrap(state.details_last_auto_refresh) >= DetailsInterval

----------------------------------------------------------------------------
(* Claims about the sections of the list (SpecFn) *)

ListDone == IsSome(fn_out) /\ fn_in.kind = "list"

\* The partitions of the frame that hold row idx: section names and "DRAFT".
PartitionsOf(idx) ==
    {cat \in Range(ListCats) : idx \in Range(Unwrap(fn_out).sections[cat])}
        \cup (IF idx \in Range(Unwrap(fn_out).drafts) THEN {"DRAFT"} ELSE {})

\* How many visible rows show idx.
TimesVisible(idx) ==
    Cardinality({r \in 1..Len(Unwrap(fn_out).visible) : Unwrap(fn_out).visible[r] = idx})

----------------------------------------------------------------------------
(* Claims about the demo refresh (SpecFn) *)

PipelineDone == IsSome(fn_out) /\ fn_in.kind = "pipeline"

\* C30: on the same prior cache, moment and list of PRs the demo refresh and
\* the live refresh return the same UiPr list and leave the same cache.
C30_DemoSameAsLive ==
    PipelineDone =>
        /\ Unwrap(fn_out).demo.out = Unwrap(fn_out).live.out
        /\ Unwrap(fn_out).demo.cache = Unwrap(fn_out).live.cache

----------------------------------------------------------------------------
(* Claims about errors at startup and in cached rows *)

\* C31: when opening the cache or reading the cached rows fails at startup, the
\* process has exited and the interactive loop is never entered.
C31_StartupStorageErrorFatal ==
    startup \in {"open_failed", "load_failed"} => pc = "exited"
\* The drawn cache with every malformed ci_checks_json replaced by NULL.
WithoutMalformed(c) ==
    [k \in DOMAIN c |->
        IF c[k].ci_checks_json = Some(MalformedJson)
        THEN [c[k] EXCEPT !.ci_checks_json = None]
        ELSE c[k]]

----------------------------------------------------------------------------
(* Claims about merge blockers (SpecFn) *)

ClearDone == IsSome(fn_out) /\ fn_in.kind = "clear"

\* C33: is_clear() is true exactly when there are no conflicts, the branch is
\* not behind base, no required check is failing and the approvals are at
\* least the required ones, which holds when no requirement is known.
C33_IsClearIff ==
    ClearDone =>
        (Unwrap(fn_out).is_clear <=>
            /\ ~fn_in.mb.has_conflicts
            /\ ~fn_in.mb.is_behind_base
            /\ Len(fn_in.mb.failing_required_checks) = 0
            /\ \/ fn_in.mb.required_approvals = None
               \/ /\ fn_in.mb.required_approvals /= None
                  /\ fn_in.mb.current_approvals >= fn_in.mb.required_approvals[1])

\* Clear with no approval, since no requirement is known.
C33_Witness ==
    /\ ClearDone
    /\ Unwrap(fn_out).is_clear
    /\ fn_in.mb.required_approvals = None
    /\ fn_in.mb.current_approvals = 0
----------------------------------------------------------------------------
(* Claims about the filter keys (SpecFn) *)

KeysDone == IsSome(fn_out) /\ fn_in.kind = "keys"

\* The i-th key is Esc, read while the filter is being edited.
EscWhileEditing(i) ==
    /\ fn_in.keys[i] = Key("Esc")
    /\ Unwrap(fn_out).before[i].filter_editing
    /\ ~Unwrap(fn_out).before[i].help_open

\* C34: Esc read while the filter is edited ends the editing and leaves no
\* filter active: the text is empty, no predicate toggle is on, the next frame
\* shows the whole list, and the selection is 0.
C34_EscLeavesUnfiltered ==
    KeysDone =>
        \A i \in 1..FnKeyCount :
            EscWhileEditing(i) =>
                LET st == Unwrap(fn_out).after[i]
                IN /\ ~st.filter_editing
                   /\ st.filter_query = <<>>
                   /\ ~st.only_needs_you
                   /\ ~st.only_failing_ci
                   /\ ~st.only_review_requested
                   /\ Len(Unwrap(fn_out).visible[i]) = Len(fn_in.prs)
                   /\ st.selected_idx = 0
----------------------------------------------------------------------------
(* Claims about the release of the refresh gate and the timers (Spec) *)

\* The worker whose channel is held has terminated: it has sent its result or
\* has gone without sending.
HeldWorkerDone ==
    /\ IsSome(refresh_rx)
    /\ workers[Unwrap(refresh_rx)].st \in {"sent", "dead"}

\* The step in which the loop polls the channel.
PollStep == pc = "poll" /\ pc' = "draw"

\* C35: refreshing is true exactly while a result channel is held; the poll
\* that follows the end of the worker, whatever it sent or did not send, clears
\* refreshing and drops the channel; and with the gate released the key 'r'
\* can start a new refresh.
C35_TerminatedWorkerReleasesGate ==
    /\ [](state.refreshing <=> IsSome(refresh_rx))
    /\ [][(PollStep /\ HeldWorkerDone) =>
             /\ ~state'.refreshing
             /\ refresh_rx' = None]_vars
    /\ []((/\ pc = "event"
           /\ ~state.refreshing
           /\ ~state.help_open
           /\ ~state.filter_editing
           /\ KeyInBounds(KeyR))
             => ENABLED (HandleKey(KeyR) /\ state'.refreshing /\ Spawned /= {}))

\* A worker died without sending, the poll released the gate, and a later
\* trigger has started a new refresh whose worker is running.
C35_Witness ==
    /\ last_result = "disconnected"
    /\ state.refreshing
    /\ Hung

\* last_refresh_started holds the moment of the most recent refresh start:
\* every start of a worker writes the clock to it and nothing else changes it.
LastStartIsRecorded ==
    /\ [][Spawned /= {} => state'.last_refresh_started = Some(clock)]_vars
    /\ [][state'.last_refresh_started /= state.last_refresh_started
             => Spawned /= {}]_vars

\* Seconds the details timer has run.
SinceDetailsTimer == clock - Unwrap(state.details_last_auto_refresh)

\* An automatic refresh of the list view never starts sooner than the list
\* interval after the most recent refresh start of any kind.
ListAutoRefreshAfterAnyStart ==
    [][(ListDecision /\ Spawned /= {}) => SinceLastStart >= ListInterval]_vars

\* C36 as stated: in either view an automatic refresh never starts sooner than
\* the view's interval after the most recent refresh start of any kind; a
\* manual refresh in Details postpones the next Details auto-refresh by a full
\* interval.
C36_AutoRefreshAfterAnyStart ==
    /\ LastStartIsRecorded
    /\ ListAutoRefreshAfterAnyStart
    /\ [][(DetailsDecision /\ Spawned /= {})
             => SinceLastStart >= DetailsInterval]_vars

\* C36, amended: in List an automatic refresh never starts sooner than the list
\* interval after the most recent refresh start of any kind; in Details it
\* never starts sooner than the details interval after the entry into Details
\* or the most recent automatic refresh started in Details, whichever is later,
\* and a manual refresh in Details does not postpone it.
C36_AutoRefreshAfterOwnTimer ==
    /\ LastStartIsRecorded
    /\ ListAutoRefreshAfterAnyStart
    /\ [][(DetailsDecision /\ Spawned /= {}) =>
             /\ IsSome(state.details_last_auto_refresh)
             /\ SinceDetailsTimer >= DetailsInterval]_vars
    /\ [][state'.details_last_auto_refresh /= state.details_last_auto_refresh =>
             \/ DetailsDecision /\ Spawned /= {}
                  /\ state'.details_last_auto_refresh = Some(clock)
             \/ last_key' = Some(Key("Tab")) /\ state'.mode = "Details"
                  /\ state'.details_last_auto_refresh = Some(clock)
             \/ last_key' = Some(Key("Tab")) /\ state'.mode = "List"
                  /\ state'.details_last_auto_refresh = None]_vars
    /\ [][(last_key' = Some(KeyR) /\ state.mode = "Details")
             => state'.details_last_auto_refresh = state.details_last_auto_refresh]_vars

\* Two keys were pressed, Tab and then 'r' once the details timer was due; the
\* manual refresh started in this very second has been applied, and the loop
\* stands at the details decision with nothing in flight and the timer due.
C36_Witness ==
    /\ pc = "auto_details"
    /\ nkeys = 2
    /\ state.mode = "Details"
    /\ ~state.refreshing
    /\ last_result = "ok"
    /\ SinceLastStart = 0
    /\ IsSome(state.details_last_auto_refresh)
    /\ SinceDetailsTimer >= DetailsInterval
----------------------------------------------------------------------------
(* Claims about the details view *)

DetailsDone == IsSome(fn_out) /\ fn_in.kind = "details"

\* The CI checks of the PR the details view shows.
DetailsChecks(st) ==
    LET found == FindPr(st.prs, st.details_pr_key)
    IN IF IsSome(found) THEN Unwrap(found).pr.ci_checks ELSE <<>>

\* C37: in every frame of the details view, after any sequence of Up and Down
\* keys and applied refresh results, the CI-check cursor is below the number of
\* checks of the details PR when it has at least one, and is 0 when it has none.
C37_CiCursorOnACheck ==
    DetailsDone =>
        \A i \in 1..FnStepCount :
            LET st == Unwrap(fn_out).frames[i]
            IN st.mode = "Details" =>
                   IF Len(DetailsChecks(st)) > 0
                   THEN st.details_ci_selected < Len(DetailsChecks(st))
                   ELSE st.details_ci_selected = 0

\* The details key is set and names a PR of the current list.
DetailsPrPresent(st) ==
    /\ IsSome(st.details_pr_key)
    /\ IsSome(FindPr(st.prs, st.details_pr_key))

\* The step in which the frame is drawn.
DrawStep == pc = "draw" /\ pc' = "event"

\* C38: the frame on screen and the state a key is handled in are in Details
\* mode only with the details key set and its PR in the current list; a poll
\* that applies a result is followed by the frame in the same iteration, a
\* frame built in Details mode without the PR returns the view to List, and
\* nothing but a key and that frame changes the view.
C38_DetailsPrInList ==
    /\ []((pc = "event" /\ state.mode = "Details") => DetailsPrPresent(state))
    /\ [][(DrawStep /\ state.mode = "Details" /\ ~DetailsPrPresent(state))
             => state'.mode = "List" /\ IsSome(cursor')]_vars
    /\ [][(DrawStep /\ state'.mode = "Details")
             => DetailsPrPresent(state') /\ cursor' = None]_vars
    /\ [][(PollStep /\ state'.prs /= state.prs) => pc' = "draw"]_vars
    /\ [][state'.mode /= state.mode
             => (pc = "event" \/ (DrawStep /\ state'.mode = "List"))]_vars

\* A result without the details PR was applied while the view was Details, and
\* the frame that followed returned the view to List: the key is still set and
\* names no PR of the list.
C38_Witness ==
    /\ pc = "event"
    /\ state.mode = "List"
    /\ IsSome(state.details_pr_key)
    /\ ~DetailsPrPresent(state)
    /\ last_result = "ok"
----------------------------------------------------------------------------
(* Claims about a PR that comes back, and about the cold start (SpecFn) *)

ReturnDone == IsSome(fn_out) /\ fn_in.kind = "return"

\* The UiPr a cycle returns for a key.
ReturnedFor(r, k) == FindPr(r.out, Some(k))

\* C39: a successful cycle does not return K1 and a later successful cycle
\* returns it again, with the commit it had before: the later cycle finds no
\* row for K1, raises is_new_review_request when the review is Requested and
\* is_new_ci_failure when the CI state is Failure.
C39_ReturningPrIsNew ==
    ReturnDone =>
        LET r == Unwrap(fn_out)
            ui == Unwrap(ReturnedFor(r.back, K1))
        IN (/\ r.first.ok /\ IsSome(ReturnedFor(r.first, K1))
            /\ r.away.ok /\ ~IsSome(ReturnedFor(r.away, K1))
            /\ fn_in.between[1] /= "skip" => ~r.between.ok
            /\ r.back.ok /\ IsSome(ReturnedFor(r.back, K1)))
           => /\ K1 \notin DOMAIN r.before_back
              /\ ui.is_new_review_request = (fn_in.pr.review_state = "Requested")
              /\ ui.is_new_ci_failure = (fn_in.pr.ci_state = "Failure")

ColdStartDone == IsSome(fn_out) /\ fn_in.kind = "coldstart"

\* The updated time load_cached takes for a row: the stored one, else the
\* time the row was last seen, else now.
RowUpdatedTime(row, now) ==
    IF row.updated_at_unix /= None THEN Unwrap(row.updated_at_unix)
    ELSE IF row.last_seen_at /= None THEN Unwrap(row.last_seen_at)
    ELSE now

\* The rows of the drawn cache inside the window and the scope.
RowsInWindowAndScope ==
    {k \in DOMAIN fn_in.c :
        /\ RowUpdatedTime(fn_in.c[k], fn_in.now) >= fn_in.now - fn_in.days * 86400
        /\ fn_in.scope.orgs /= {} => fn_in.c[k].owner \in fn_in.scope.orgs
        /\ fn_in.scope.include_repos /= {}
              => <<fn_in.c[k].owner, fn_in.c[k].repo>> \in fn_in.scope.include_repos
        /\ <<fn_in.c[k].owner, fn_in.c[k].repo>> \notin fn_in.scope.exclude_repos}

\* C40: the cold-start load leaves the cache as it is, returns only rows whose
\* updated time is at or after the cutoff and that match the scope, each once,
\* raises neither novelty flag, and scores a cached failing PR with the -30
\* term.
C40_ColdStartReadOnlyNothingNew ==
    ColdStartDone =>
        LET out == Unwrap(fn_out).out
        IN /\ Unwrap(fn_out).cache = fn_in.c
           /\ {p.pr.pr_key : p \in Range(out)} \subseteq RowsInWindowAndScope
           /\ \A i, j \in 1..Len(out) : out[i].pr.pr_key = out[j].pr.pr_key => i = j
           /\ \A p \in Range(out) :
                 /\ ~p.is_new_review_request
                 /\ ~p.is_new_ci_failure
                 /\ fn_in.c[p.pr.pr_key].last_ci_state = Some("failure")
                       => p.score = StaleFailureScore(p.pr)

\* A load under the one-day window and the scope of one organisation: the row
\* of K2 is outside the scope, the row of K3 is returned, and the row of K1,
\* failing with a review requested and updated exactly at the cutoff, is
\* returned, not new, with the score 50 - 30.
C40_Witness ==
    /\ ColdStartDone
    /\ fn_in.days = 1
    /\ fn_in.scope.orgs = {"acme"}
    /\ fn_in.c[K1].updated_at_unix = Some(fn_in.now - 86400)
    /\ fn_in.c[K1].last_ci_state = Some("failure")
    /\ fn_in.c[K1].last_review_state = Some("requested")
    /\ {p.pr.pr_key : p \in Range(Unwrap(fn_out).out)} = {K1, K3}
    /\ \E p \in Range(Unwrap(fn_out).out) :
          /\ p.pr.pr_key = K1
          /\ p.score = 20
          /\ ~p.is_new_ci_failure
          /\ ~p.is_new_review_request
====
